---------------------------- MODULE Spec2Model ----------------------------
(***************************************************************************)
(* A model of the ingestion and retrieval pipeline of the repository:      *)
(* resilient batch insertion (src/src/vector_store.py), metadata           *)
(* inference from paths (src/src/data_loading.py), chunking                *)
(* (src/src/text_processing.py), filter handling and retrieval             *)
(* (src/src/vector_store.py, src/src/retriever.py) and text                *)
(* normalization (src/src/query_utils.py).                                 *)
(*                                                                         *)
(* Python strings are sequences of one-character strings; a dict with      *)
(* string keys is a function whose domain is the set of its keys; a dict   *)
(* whose iteration order matters is a sequence of <<key, value>> pairs.    *)
(* A metadata value carries its Python type in the field t.                *)
(***************************************************************************)
EXTENDS Integers, Sequences, FiniteSets, TLC

VARIABLES
    \* ---- VectorStore.add_documents (src/src/vector_store.py) ----
    given,          \* the chunks as they were when add_documents was called
    documents,      \* the list handed to add_documents (objects mutated in place)
    failing,        \* positions whose presence makes a store insertion raise
    batch_size,     \* the batch_size argument
    pc,             \* position inside add_documents
    i,              \* loop variable of the batch loop (0-based offset)
    j,              \* loop variable of the individual retry loop (0-based)
    all_ids,        \* the ids collected so far
    store,          \* the collection: what the backing store holds
    submitted,      \* the lists handed to the store's add_documents by this call, in order
    repeats,        \* how often add_documents was called again with the same list
    \* ---- normalize_text and the materia labels (src/src/query_utils.py) ----
    text,           \* a subject as it is spelled: a folder name, a caller's materia
    token,          \* normalize_text(text) when it was last computed, or None
    again,          \* normalize_text(token), or None
    filterToken,    \* normalize_text of the latest respelling, or None
    materiaStored,  \* the materia the loader stores for the folder text, or None
    materiaFilter,  \* the materia a query path puts in its filter for text, or None
    \* ---- searches (src/src/vector_store.py, src/src/retriever.py) ----
    scores,         \* the score the store reports for each stored chunk and the query
    op,             \* the search operation that was called last, with its arguments
    calls,          \* the calls that operation made to the backing store
    result,         \* the ids of the chunks it returned
    raised,         \* whether it raised
    self_k,                 \* Retriever.k
    self_score_threshold,   \* Retriever.score_threshold
    native_retriever,       \* the search_kwargs bound in Retriever.native_retriever
    \* ---- DocumentLoader.extract_academic_metadata (src/src/data_loading.py) ----
    file_path,      \* the parts of the path of the file being loaded
    academic_metadata,  \* the metadata extracted from it, or None
    \* ---- AcademicTextSplitter.split_documents (src/src/text_processing.py) ----
    split_input,        \* the documents argument
    preserve_metadata,  \* the preserve_metadata argument
    add_chunk_metadata, \* the add_chunk_metadata argument
    doc_cursor,         \* how many documents the loop has handled
    chunks,             \* the chunks list
    split_pc,           \* "idle", "loop" or "returned"
    \* ---- DocumentLoader.load_documents_from_directory and ----
    \* ---- RAGPipeline.load_materials (src/src/rag_pipeline.py) ----
    directory_exists,       \* whether directory_path exists
    directory,              \* what directory.rglob('*') yields, in traversal order
    supported_extensions,   \* DocumentLoader.supported_extensions
    metadata_extractor,     \* whether a metadata_extractor is passed
    file_cursor,            \* how many entries of the traversal have been handled
    loaded,                 \* the documents list of the loader
    load_pc,                \* "idle", "loop", "returned" or "reported"
    stats                   \* what load_materials returned, or None

addVars == <<given, documents, failing, batch_size, pc, i, j, all_ids, store, submitted>>
repeatVars == <<repeats>>
normVars == <<text, token, again, filterToken, materiaStored, materiaFilter>>

searchVars == <<scores, op, calls, result, raised>>
retrVars == <<self_k, self_score_threshold, native_retriever>>

metaVars == <<file_path, academic_metadata>>

splitVars ==
    <<split_input, preserve_metadata, add_chunk_metadata, doc_cursor, chunks, split_pc>>

loadVars ==
    <<directory_exists, directory, supported_extensions, metadata_extractor, file_cursor,
      loaded, load_pc, stats>>

vars == <<addVars, repeatVars, normVars, searchVars, retrVars, metaVars, splitVars, loadVars>>

\* what an operation of one component leaves alone: the other components
exceptAdd == <<repeatVars, normVars, searchVars, retrVars, metaVars, splitVars, loadVars>>
exceptNorm == <<repeatVars, addVars, searchVars, retrVars, metaVars, splitVars, loadVars>>
exceptSearch == <<repeatVars, addVars, normVars, metaVars, splitVars, loadVars>>
exceptMeta == <<repeatVars, addVars, normVars, searchVars, retrVars, splitVars, loadVars>>
exceptSplit == <<repeatVars, addVars, normVars, searchVars, retrVars, metaVars, loadVars>>
exceptLoad == <<repeatVars, addVars, normVars, searchVars, retrVars, metaVars, splitVars>>

\* Python's None and a present value
None == <<>>
Some(x) == <<x>>

---------------------------------------------------------------------------
(* Bounds of the model                                                     *)

MaxDocs == 3
MaxBatch == 3
\* the length ceilings of the sanitation (10000 for content, 500 for a
\* metadata value in the source), scaled down to the size of the model's
\* strings; as in the source, the placeholder fits under the content ceiling
ContentCeiling == 24
MetaCeiling == 3
\* the longest subject spelling
MaxTextLen == 3
MaxSplitDocs == 2

---------------------------------------------------------------------------
(* Characters and strings                                                  *)

SP == " "
TAB == "\t"
LF == "\n"
\* one representative of the control characters [\x00-\x08\x0B\x0C\x0E-\x1F\x7F]
NUL == "NUL"

CtlChars == {NUL}
BlankChars == {SP, TAB}
\* the characters the regex class \s and str.strip() treat as whitespace
SpaceChars == {SP, TAB, LF}

Min(a, b) == IF a < b THEN a ELSE b

\* s[a..b] with Python's clipping, 1-based inclusive
Slice(s, a, b) == SubSeq(s, a, Min(b, Len(s)))

\* Python s[:n]
Take(s, n) == SubSeq(s, 1, Min(n, Len(s)))

\* Python s[n:]
Drop(s, n) == SubSeq(s, n + 1, Len(s))

RECURSIVE LStrip(_)
LStrip(s) ==
    IF s # <<>> /\ Head(s) \in SpaceChars THEN LStrip(Tail(s)) ELSE s

RECURSIVE RStrip(_)
RStrip(s) ==
    IF s # <<>> /\ s[Len(s)] \in SpaceChars
    THEN RStrip(SubSeq(s, 1, Len(s) - 1))
    ELSE s

\* str.strip()
Strip(s) == RStrip(LStrip(s))

---------------------------------------------------------------------------
(* Metadata values and dicts                                               *)

StrV(s) == [t |-> "str", s |-> s]
IntV(n) == [t |-> "int", n |-> n]
BoolV(b) == [t |-> "bool", b |-> b]

EmptyDict == [k \in {} |-> TRUE]

\* d[k] = v
Put(d, k, v) == [x \in (DOMAIN d) \cup {k} |-> IF x = k THEN v ELSE d[x]]

\* d.pop(k, None)
Pop(d, k) == [x \in (DOMAIN d) \ {k} |-> d[x]]

\* d.update(e)
Update(d, e) ==
    [x \in (DOMAIN d) \cup (DOMAIN e) |-> IF x \in DOMAIN e THEN e[x] ELSE d[x]]

---------------------------------------------------------------------------
(* VectorStore._clean_document_content                                     *)

DigitChars == <<"0", "1", "2", "3", "4", "5", "6", "7", "8", "9">>

\* str(n) for n >= 0
RECURSIVE IntStr(_)
IntStr(n) ==
    IF n < 10 THEN <<DigitChars[n + 1]>>
    ELSE IntStr(n \div 10) \o <<DigitChars[(n % 10) + 1]>>

\* re.sub(r'[\x00-\x08\x0B\x0C\x0E-\x1F\x7F]', '', s)
RECURSIVE RemoveCtl(_)
RemoveCtl(s) ==
    IF s = <<>> THEN <<>>
    ELSE IF Head(s) \in CtlChars THEN RemoveCtl(Tail(s))
    ELSE <<Head(s)>> \o RemoveCtl(Tail(s))

\* s without its longest prefix of characters of cls
RECURSIVE SkipClass(_, _)
SkipClass(s, cls) ==
    IF s # <<>> /\ Head(s) \in cls THEN SkipClass(Tail(s), cls) ELSE s

\* re.sub(cls+, ' ', s)
RECURSIVE CollapseClass(_, _)
CollapseClass(s, cls) ==
    IF s = <<>> THEN <<>>
    ELSE IF Head(s) \in cls THEN <<SP>> \o CollapseClass(SkipClass(s, cls), cls)
    ELSE <<Head(s)>> \o CollapseClass(Tail(s), cls)

\* the largest index q <= n with s[q] = "\n", 0 when there is none
RECURSIVE LastLF(_, _)
LastLF(s, n) ==
    IF n = 0 THEN 0 ELSE IF s[n] = LF THEN n ELSE LastLF(s, n - 1)

\* re.sub(r'\n\s*\n', '\n\n', s): leftmost match, \s* greedy with backtracking
RECURSIVE NormalizeParagraphs(_)
NormalizeParagraphs(s) ==
    IF s = <<>> THEN <<>>
    ELSE IF Head(s) = LF
    THEN LET r == Tail(s)
             n == Len(r) - Len(SkipClass(r, SpaceChars))
             q == LastLF(r, n)
         IN  IF q > 0 THEN <<LF, LF>> \o NormalizeParagraphs(Drop(r, q))
             ELSE <<LF>> \o NormalizeParagraphs(r)
    ELSE <<Head(s)>> \o NormalizeParagraphs(Tail(s))

TruncationMarker ==
    <<LF, LF, "[", "C", "O", "N", "T", "E", "N", "I", "D", "O", SP,
      "T", "R", "U", "N", "C", "A", "D", "O", "]">>

Placeholder ==
    <<"C", "o", "n", "t", "e", "n", "i", "d", "o", SP, "n", "o", SP,
      "d", "i", "s", "p", "o", "n", "i", "b", "l", "e">>

\* lines 136-160: the new page_content
CleanContent(content) ==
    IF content # <<>>
    THEN LET c1 == RemoveCtl(content)
             c2 == CollapseClass(c1, BlankChars)
             c3 == NormalizeParagraphs(c2)
             c4 == IF Len(c3) > ContentCeiling
                   THEN Take(c3, ContentCeiling) \o TruncationMarker
                   ELSE c3
             c5 == IF Strip(c4) = <<>> THEN Placeholder ELSE c4
         IN  Strip(c5)
    ELSE Placeholder

\* lines 166-173: one metadata value
CleanMetaValue(v) ==
    IF v.t = "str"
    THEN StrV(Take(Strip(CollapseClass(RemoveCtl(v.s), SpaceChars)), MetaCeiling))
    ELSE v

\* line 177: the text of _cleaning_info
CleaningInfo(original, cleaned) ==
    StrV(<<"o", "r", "i", "g", "i", "n", "a", "l", ":">> \o IntStr(Len(original))
         \o <<",", "c", "l", "e", "a", "n", "e", "d", ":">> \o IntStr(Len(cleaned))
         \o <<",", "w", "a", "s", "_", "c", "l", "e", "a", "n", "e", "d", ":",
              "T", "r", "u", "e">>)

\* lines 163-179: the new metadata (left alone when the mapping is empty)
CleanMetadata(metadata, original, cleaned) ==
    IF DOMAIN metadata # {}
    THEN LET cm == [k \in DOMAIN metadata |-> CleanMetaValue(metadata[k])]
         IN  IF original # <<>> /\ Len(original) # Len(cleaned)
             THEN Put(cm, "_cleaning_info", CleaningInfo(original, cleaned))
             ELSE cm
    ELSE metadata

\* _clean_document_content on a Document (a str page_content, a dict metadata:
\* nothing in the try block raises for such an object)
CleanDocument(doc) ==
    LET cleaned == CleanContent(doc.page_content)
    IN  [page_content |-> cleaned,
         metadata |-> CleanMetadata(doc.metadata, doc.page_content, cleaned)]

---------------------------------------------------------------------------
(* VectorStore.add_documents                                               *)

\* the contents and the metadata mappings the chunks of a call are drawn from
AddContents == << <<"a">>, <<"a", SP, SP, NUL, "b">>, <<>> >>
AddMetas == << EmptyDict, [materia |-> StrV(<<"m", SP, SP, "x">>), page |-> IntV(1)] >>

\* str(batch_error), str(doc_error): the message of the store's exception
ErrorText == StrV(<<"e", "r", "r">>)

N == Len(documents)

\* cleaned_documents[i:i + batch_size], as 1-based positions
BatchPositions == {p \in 1..N : i < p /\ p <= i + batch_size}

\* cleaned_documents[i:i + batch_size], as the list of its positions
Batch == [x \in 1..Cardinality(BatchPositions) |-> i + x]

\* self.vectorstore.add_documents(docs) raises when one of the chunks is one the
\* store rejects, and then inserts none of them
StoreRejects(ps) == ps \cap failing # {}

\* StoreEntry with the error fields left out of the stored metadata
StoreEntryWithoutErrorFields(p, n) ==
    [id |-> n, pos |-> p,
     page_content |-> documents[p].page_content,
     metadata |-> [k \in (DOMAIN documents[p].metadata) \
                            {"_batch_error", "_batch_number", "_individual_error",
                             "_document_position", "_failed_processing"} |->
                      documents[p].metadata[k]]]

\* what the store holds for a chunk it accepted: a fresh id, the chunk as it was
\* when it was submitted, and (for the record) its position in the call
StoreEntry(p, n) ==
    [id |-> n, pos |-> p,
     page_content |-> documents[p].page_content,
     metadata |-> documents[p].metadata]

RECURSIVE InsertAll(_, _, _)
InsertAll(st, p, last) ==
    IF p > last THEN st
    ELSE InsertAll(Append(st, StoreEntry(p, Len(st) + 1)), p + 1, last)

\* TagBatchError with the metadata replaced by the two error fields
TagBatchErrorOnly(doc) ==
    [doc EXCEPT !.metadata =
        [_batch_error |-> ErrorText, _batch_number |-> IntV((i \div batch_size) + 1)]]

\* lines 230-233: every chunk of the failed batch is tagged
TagBatchError(doc) ==
    [doc EXCEPT !.metadata =
        Put(Put(@, "_batch_error", ErrorText),
            "_batch_number", IntV((i \div batch_size) + 1))]

\* lines 244-247: the chunk that failed on its own is tagged
TagIndividualError(doc) ==
    [doc EXCEPT !.metadata =
        Put(Put(Put(@, "_individual_error", ErrorText),
                "_document_position", IntV(j + 1)),
            "_failed_processing", BoolV(TRUE))]

\* the end of one pass of the retry loop: the next chunk, or the next batch
EndRetry ==
    IF j + 1 < Cardinality(BatchPositions)
    THEN /\ j' = j + 1
         /\ UNCHANGED <<pc, i>>
    ELSE /\ j' = 0
         /\ i' = i + batch_size
         /\ pc' = "batch"

\* lines 208-217: the call, the empty-list return and the sanitation of every chunk;
\* range(0, n, 0) raises ValueError, which line 256 logs and re-raises
AddDocuments(docs, bs, bad) ==
    /\ pc = "idle"
    /\ given' = docs
    /\ failing' = bad
    /\ batch_size' = bs
    /\ all_ids' = <<>>
    /\ submitted' = <<>>
    /\ i' = 0
    /\ j' = 0
    /\ IF docs = <<>>
       THEN documents' = docs /\ pc' = "returned"
       ELSE /\ documents' = [p \in 1..Len(docs) |-> CleanDocument(docs[p])]
            /\ pc' = IF bs = 0 THEN "raised" ELSE "batch"
    /\ UNCHANGED <<store, exceptAdd>>

\* lines 222-226: the batch is inserted as a whole
BatchInserted ==
    /\ pc = "batch"
    /\ i < N
    /\ ~StoreRejects(BatchPositions)
    /\ store' = InsertAll(store, i + 1, Min(i + batch_size, N))
    /\ all_ids' = all_ids \o [x \in 1..Cardinality(BatchPositions) |-> Len(store) + x]
    /\ submitted' = Append(submitted, Batch)
    /\ i' = i + batch_size
    /\ UNCHANGED <<given, documents, failing, batch_size, pc, j, exceptAdd>>

\* BatchFailed with a rollback: the chunks inserted so far are removed when a
\* batch raises
BatchFailedRollback ==
    /\ pc = "batch"
    /\ i < N
    /\ StoreRejects(BatchPositions)
    /\ documents' = [p \in 1..N |->
           IF p \in BatchPositions THEN TagBatchError(documents[p]) ELSE documents[p]]
    /\ j' = 0
    /\ pc' = "retry"
    /\ store' = <<>>
    /\ submitted' = Append(submitted, Batch)
    /\ UNCHANGED <<given, failing, batch_size, i, all_ids, exceptAdd>>

\* lines 227-233: the batch raised
BatchFailed ==
    /\ pc = "batch"
    /\ i < N
    /\ StoreRejects(BatchPositions)
    /\ documents' = [p \in 1..N |->
           IF p \in BatchPositions THEN TagBatchError(documents[p]) ELSE documents[p]]
    /\ j' = 0
    /\ pc' = "retry"
    /\ submitted' = Append(submitted, Batch)
    /\ UNCHANGED <<given, failing, batch_size, i, all_ids, store, exceptAdd>>

\* RetryInserted with the retry loop left after the first chunk that is
\* inserted on its own
RetryInsertedBreak ==
    /\ pc = "retry"
    /\ ~StoreRejects({i + j + 1})
    /\ store' = Append(store, StoreEntry(i + j + 1, Len(store) + 1))
    /\ all_ids' = Append(all_ids, Len(store) + 1)
    /\ submitted' = Append(submitted, <<i + j + 1>>)
    /\ j' = 0
    /\ i' = i + batch_size
    /\ pc' = "batch"
    /\ UNCHANGED <<given, documents, failing, batch_size, exceptAdd>>

\* lines 236-240: a chunk of the failed batch is inserted on its own
RetryInserted ==
    /\ pc = "retry"
    /\ ~StoreRejects({i + j + 1})
    /\ store' = Append(store, StoreEntry(i + j + 1, Len(store) + 1))
    /\ all_ids' = Append(all_ids, Len(store) + 1)
    /\ submitted' = Append(submitted, <<i + j + 1>>)
    /\ EndRetry
    /\ UNCHANGED <<given, documents, failing, batch_size, exceptAdd>>

\* RetryFailed with the retry loop abandoned at the first chunk that fails
\* (a break where the source has continue)
RetryFailedBreak ==
    /\ pc = "retry"
    /\ StoreRejects({i + j + 1})
    /\ documents' = [documents EXCEPT ![i + j + 1] = TagIndividualError(@)]
    /\ j' = 0
    /\ i' = i + batch_size
    /\ pc' = "batch"
    /\ submitted' = Append(submitted, <<i + j + 1>>)
    /\ UNCHANGED <<given, failing, batch_size, all_ids, store, exceptAdd>>

\* lines 241-248: the chunk fails on its own too
RetryFailed ==
    /\ pc = "retry"
    /\ StoreRejects({i + j + 1})
    /\ documents' = [documents EXCEPT ![i + j + 1] = TagIndividualError(@)]
    /\ submitted' = Append(submitted, <<i + j + 1>>)
    /\ EndRetry
    /\ UNCHANGED <<given, failing, batch_size, all_ids, store, exceptAdd>>

\* lines 250-254: the statistics are logged and all_ids is returned
AddReturn ==
    /\ pc = "batch"
    /\ i >= N
    /\ pc' = "returned"
    /\ UNCHANGED <<given, documents, failing, batch_size, i, j, all_ids, store, submitted,
                   exceptAdd>>

InitAdd ==
    /\ given = <<>>
    /\ documents = <<>>
    /\ failing = {}
    /\ batch_size = 1
    /\ pc = "idle"
    /\ i = 0
    /\ j = 0
    /\ all_ids = <<>>
    /\ store = <<>>
    /\ submitted = <<>>
    /\ repeats = 0

\* no subject has been handled
IdleNorm ==
    /\ text = <<>>
    /\ token = None
    /\ again = None
    /\ filterToken = None
    /\ materiaStored = None
    /\ materiaFilter = None

\* no directory is being loaded
IdleLoad ==
    /\ directory_exists = FALSE
    /\ directory = <<>>
    /\ supported_extensions = {}
    /\ metadata_extractor = FALSE
    /\ file_cursor = 0
    /\ loaded = <<>>
    /\ load_pc = "idle"
    /\ stats = None

\* no file is being loaded, no document is being split
IdleMeta ==
    /\ IdleLoad
    /\ file_path = <<>>
    /\ academic_metadata = None
    /\ split_input = <<>>
    /\ preserve_metadata = TRUE
    /\ add_chunk_metadata = TRUE
    /\ doc_cursor = 0
    /\ chunks = <<>>
    /\ split_pc = "idle"

\* no operation has been called yet
NoOp == [name |-> "none", k |-> <<>>, filter |-> <<>>, include_scores |-> FALSE]

\* no search has been made, no retriever is in use
IdleSearch ==
    /\ scores = <<>>
    /\ op = NoOp
    /\ calls = <<>>
    /\ result = <<>>
    /\ raised = FALSE
    /\ self_k = 1
    /\ self_score_threshold = 0
    /\ native_retriever = [search_type |-> "similarity_score_threshold", k |-> 1,
                         score_threshold |-> 0]

AddCall ==
    /\ pc = "idle"
    /\ \E n \in 0..MaxDocs :
         \E c \in [1..n -> 1..Len(AddContents)], m \in [1..n -> 1..Len(AddMetas)] :
           \E bs \in 0..MaxBatch, bad \in SUBSET (1..n) :
             AddDocuments([p \in 1..n |->
                             [page_content |-> AddContents[c[p]],
                              metadata |-> AddMetas[m[p]]]],
                          bs, bad)

NextAdd ==
    \/ AddCall
    \/ BatchInserted
    \/ BatchFailed
    \/ RetryInserted
    \/ RetryFailed
    \/ AddReturn

InitSpecAdd == InitAdd /\ IdleNorm /\ IdleSearch /\ IdleMeta

SpecAdd == InitSpecAdd /\ [][NextAdd]_vars

\* add_documents runs in one thread: once called, it takes its next step
FairAdd == WF_vars(BatchInserted \/ BatchFailed \/ RetryInserted \/ RetryFailed \/ AddReturn)

\* a call whose chunks each pair a content with the metadata of the same rank
AddCallPaired ==
    /\ pc = "idle"
    /\ \E n \in 0..MaxDocs :
         \E c \in [1..n -> 1..Len(AddMetas)] :
           \E bs \in 0..MaxBatch, bad \in SUBSET (1..n) :
             AddDocuments([p \in 1..n |->
                             [page_content |-> AddContents[c[p]],
                              metadata |-> AddMetas[c[p]]]],
                          bs, bad)

NextAddFair ==
    \/ AddCallPaired
    \/ BatchInserted
    \/ BatchFailed
    \/ RetryInserted
    \/ RetryFailed
    \/ AddReturn

SpecAddFair == InitSpecAdd /\ [][NextAddFair]_vars /\ FairAdd

\* up to two characters at the start and at the end of a content: a letter,
\* a blank, a line feed, a control character
EdgeChars == {"a", SP, LF, NUL}
Edges == {<<>>} \cup {<<c>> : c \in EdgeChars} \cup {<<c, d>> : c, d \in EdgeChars}

RECURSIVE Filler(_)
Filler(n) == IF n = 0 THEN <<>> ELSE <<"x">> \o Filler(n - 1)

\* the contents the sanitation is applied to: short ones, and ones around
\* the length ceiling
CleanInputs ==
    {pre \o mid \o suf : pre \in Edges, suf \in Edges,
                         mid \in {<<>>, Filler(ContentCeiling - 1)}}

\* _clean_document_content(doc), lines 129-179, on a fresh chunk
Sanitize ==
    /\ pc = "idle"
    /\ \E c \in CleanInputs, m \in 1..Len(AddMetas) :
          /\ given' = <<[page_content |-> c, metadata |-> AddMetas[m]]>>
          /\ documents' = <<CleanDocument([page_content |-> c, metadata |-> AddMetas[m]])>>
    /\ pc' = "cleaned"
    /\ UNCHANGED <<failing, batch_size, i, j, all_ids, store, submitted, exceptAdd>>

\* _clean_document_content(doc) on the chunk it has sanitized before
SanitizeAgain ==
    /\ pc = "cleaned"
    /\ given' = documents
    /\ documents' = <<CleanDocument(documents[1])>>
    /\ pc' = "recleaned"
    /\ UNCHANGED <<failing, batch_size, i, j, all_ids, store, submitted, exceptAdd>>

NextClean ==
    \/ Sanitize
    \/ SanitizeAgain

SpecClean == InitSpecAdd /\ [][NextClean]_vars

\* how often the list of a call is handed to add_documents again
MaxRepeats == 1

\* Python's truth value of a metadata value
TruthyValue(v) ==
    CASE v.t = "str" -> v.s # <<>>
      [] v.t = "int" -> v.n # 0
      [] v.t = "bool" -> v.b
      [] OTHER -> FALSE

\* doc.metadata.get(key) is true, lines 279-285
HasTruthy(doc, key) ==
    /\ doc.metadata # EmptyDict
    /\ key \in DOMAIN doc.metadata
    /\ TruthyValue(doc.metadata[key])

\* _log_processing_stats(cleaned_documents, all_ids), lines 269-285: the
\* numbers it logs
LogProcessingStats ==
    [total_docs |-> N,
     successful_docs |-> Len(all_ids),
     failed_docs |-> N - Len(all_ids),
     cleaning_errors |-> Cardinality({p \in 1..N : HasTruthy(documents[p], "_cleaning_failed")}),
     batch_errors |-> Cardinality({p \in 1..N : HasTruthy(documents[p], "_batch_error")}),
     individual_errors |->
         Cardinality({p \in 1..N : HasTruthy(documents[p], "_individual_error")})]

\* add_documents is called again with the list of the call that returned:
\* the same chunk objects, as the earlier call left them (lines 208-217)
AddDocumentsAgain(bs, bad) ==
    /\ pc = "returned"
    /\ N >= 1
    /\ repeats < MaxRepeats
    /\ repeats' = repeats + 1
    /\ given' = documents
    /\ documents' = [p \in 1..N |-> CleanDocument(documents[p])]
    /\ failing' = bad
    /\ batch_size' = bs
    /\ all_ids' = <<>>
    /\ submitted' = <<>>
    /\ i' = 0
    /\ j' = 0
    /\ pc' = IF bs = 0 THEN "raised" ELSE "batch"
    /\ UNCHANGED <<store, normVars, searchVars, retrVars, metaVars, splitVars, loadVars>>

AddAgain ==
    /\ pc = "returned"
    /\ \E bs \in 0..MaxBatch, bad \in SUBSET (1..N) : AddDocumentsAgain(bs, bad)

NextAddAgain ==
    \/ NextAdd
    \/ AddAgain

SpecAddAgain == InitSpecAdd /\ [][NextAddAgain]_vars

---------------------------------------------------------------------------
(* normalize_text (src/src/query_utils.py)                                 *)

\* The characters of the model: ASCII letters in both cases, a digit, letters
\* with a diacritic (precomposed), the combining acute accent and tilde,
\* non-alphanumeric separators, and a non-ASCII letter without a decomposition.
\* <<upper, lower>>: str.lower()
CasePairs ==
    << <<"A", "a">>, <<"N", "n">>, <<"A_acute", "a_acute">>, <<"N_tilde", "n_tilde">> >>

\* <<precomposed, base, combining mark>>: the canonical decomposition (NFD)
Decompositions ==
    << <<"a_acute", "a", "COMB_ACUTE">>, <<"A_acute", "A", "COMB_ACUTE">>,
       <<"n_tilde", "n", "COMB_TILDE">>, <<"N_tilde", "N", "COMB_TILDE">> >>

\* unicodedata.category(c) == 'Mn'
CombiningMarks == {"COMB_ACUTE", "COMB_TILDE"}

\* the characters the class [a-z0-9] holds
AsciiLowerDigits == {"a", "n", "1"}

Separators == {SP, "_", "-"}

NormAlphabet ==
    {"a", "A", "n", "N", "1", "a_acute", "A_acute", "n_tilde", "N_tilde",
     "COMB_ACUTE", "sharp_s"} \cup Separators

AsciiUpper ==
    <<"A", "B", "C", "D", "E", "F", "G", "H", "I", "J", "K", "L", "M",
      "N", "O", "P", "Q", "R", "S", "T", "U", "V", "W", "X", "Y", "Z">>
AsciiLower ==
    <<"a", "b", "c", "d", "e", "f", "g", "h", "i", "j", "k", "l", "m",
      "n", "o", "p", "q", "r", "s", "t", "u", "v", "w", "x", "y", "z">>

\* c.lower()
LowerChar(c) ==
    IF \E x \in 1..Len(CasePairs) : CasePairs[x][1] = c
    THEN CasePairs[CHOOSE x \in 1..Len(CasePairs) : CasePairs[x][1] = c][2]
    ELSE IF \E x \in 1..Len(AsciiUpper) : AsciiUpper[x] = c
    THEN AsciiLower[CHOOSE x \in 1..Len(AsciiUpper) : AsciiUpper[x] = c]
    ELSE c

\* text.lower()
Lower(s) == [x \in 1..Len(s) |-> LowerChar(s[x])]

\* unicodedata.normalize('NFD', c) for one character
DecomposeChar(c) ==
    IF \E x \in 1..Len(Decompositions) : Decompositions[x][1] = c
    THEN LET d == Decompositions[CHOOSE x \in 1..Len(Decompositions) :
                                     Decompositions[x][1] = c]
         IN  <<d[2], d[3]>>
    ELSE <<c>>

\* unicodedata.normalize('NFD', text)
RECURSIVE NFD(_)
NFD(s) == IF s = <<>> THEN <<>> ELSE DecomposeChar(Head(s)) \o NFD(Tail(s))

\* ''.join(c for c in text if unicodedata.category(c) != 'Mn')
RECURSIVE DropMarks(_)
DropMarks(s) ==
    IF s = <<>> THEN <<>>
    ELSE IF Head(s) \in CombiningMarks THEN DropMarks(Tail(s))
    ELSE <<Head(s)>> \o DropMarks(Tail(s))

\* RemoveNonAlnum that replaces only the first match (re.sub with count=1)
RECURSIVE RemoveFirstNonAlnum(_)
RemoveFirstNonAlnum(s) ==
    IF s = <<>> THEN <<>>
    ELSE IF Head(s) \notin AsciiLowerDigits THEN Tail(s)
    ELSE <<Head(s)>> \o RemoveFirstNonAlnum(Tail(s))

\* re.sub(r'[^a-z0-9]', '', text)
RECURSIVE RemoveNonAlnum(_)
RemoveNonAlnum(s) ==
    IF s = <<>> THEN <<>>
    ELSE IF Head(s) \notin AsciiLowerDigits THEN RemoveNonAlnum(Tail(s))
    ELSE <<Head(s)>> \o RemoveNonAlnum(Tail(s))

\* normalize_text without the lower-casing step
NormalizeTextNoLower(s) ==
    IF s = <<>> THEN <<>> ELSE RemoveNonAlnum(DropMarks(NFD(s)))

\* normalize_text, lines 25-38
normalize_text(s) ==
    IF s = <<>> THEN <<>> ELSE RemoveNonAlnum(DropMarks(NFD(Lower(s))))

\* str.replace(old, new) for single characters
ReplaceChar(s, old, new) == [x \in 1..Len(s) |-> IF s[x] = old THEN new ELSE s[x]]

\* DocumentLoader.extract_academic_metadata, lines 234-236: the materia stored
\* with every chunk of the folder materia_raw
LoaderMateria(materia_raw) == ReplaceChar(materia_raw, "_", SP)

\* RAGPipeline.generate_exercises, lines 176-177: the caller's materia is put in
\* the filter as it is
PipelineFilterMateria(materia) == materia

\* evaluate_with_llm_judge.py, lines 426-429: the filter holds normalize_text(materia)
JudgeFilterMateria(materia) == normalize_text(materia)

\* all strings of at most n characters of cs
StringsUpTo(cs, n) == UNION {[1..k -> cs] : k \in 0..n}

\* s with c inserted so that it becomes the character at position p
InsertAt(s, p, c) == SubSeq(s, 1, p - 1) \o <<c>> \o SubSeq(s, p, Len(s))

\* s without the character at position p
DeleteAt(s, p) == SubSeq(s, 1, p - 1) \o SubSeq(s, p + 1, Len(s))

\* the other-case form of c, when it has one
CaseVariants(c) ==
    {CasePairs[x][2] : x \in {y \in 1..Len(CasePairs) : CasePairs[y][1] = c}}
    \cup {CasePairs[x][1] : x \in {y \in 1..Len(CasePairs) : CasePairs[y][2] = c}}

\* c with its diacritic added or removed, when there is such a letter
DiacriticVariants(c) ==
    {Decompositions[x][2] : x \in {y \in 1..Len(Decompositions) : Decompositions[y][1] = c}}
    \cup {Decompositions[x][1] : x \in {y \in 1..Len(Decompositions) : Decompositions[y][2] = c}}

\* normalize_text(text) is computed (the token a chunk would be stored under)
Normalize ==
    /\ text # <<>>
    /\ token' = Some(normalize_text(text))
    /\ UNCHANGED <<text, again, filterToken, materiaStored, materiaFilter, exceptNorm>>

\* normalize_text is applied to its own result
NormalizeAgain ==
    /\ token # None
    /\ again' = Some(normalize_text(token[1]))
    /\ UNCHANGED <<text, token, filterToken, materiaStored, materiaFilter, exceptNorm>>

\* the subject is spelled with one letter in the other case, and a filter value
\* is computed from the new spelling
RespellCase ==
    \E p \in 1..Len(text) : \E c \in CaseVariants(text[p]) :
        /\ text' = [text EXCEPT ![p] = c]
        /\ filterToken' = Some(normalize_text(text'))
        /\ UNCHANGED <<token, again, materiaStored, materiaFilter, exceptNorm>>

\* the subject is spelled with one diacritic more or less (precomposed, or as
\* a combining mark after a letter)
RespellDiacritic ==
    /\ \/ \E p \in 1..Len(text) : \E c \in DiacriticVariants(text[p]) :
            text' = [text EXCEPT ![p] = c]
       \/ \E p \in 2..(Len(text) + 1) : \E c \in CombiningMarks :
            Len(text) < MaxTextLen /\ text' = InsertAt(text, p, c)
       \/ \E p \in 1..Len(text) :
            text[p] \in CombiningMarks /\ text' = DeleteAt(text, p)
    /\ filterToken' = Some(normalize_text(text'))
    /\ UNCHANGED <<token, again, materiaStored, materiaFilter, exceptNorm>>

\* the subject is spelled with one separator (space, underscore, hyphen) more or less
RespellSeparator ==
    /\ \/ \E p \in 1..(Len(text) + 1) : \E c \in Separators :
            Len(text) < MaxTextLen /\ text' = InsertAt(text, p, c)
       \/ \E p \in 1..Len(text) :
            text[p] \in Separators /\ text' = DeleteAt(text, p)
    /\ filterToken' = Some(normalize_text(text'))
    /\ UNCHANGED <<token, again, materiaStored, materiaFilter, exceptNorm>>

\* the loader stores the materia of the folder named text
LoaderStoresMateria ==
    /\ text # <<>>
    /\ materiaStored' = Some(LoaderMateria(text))
    /\ UNCHANGED <<text, token, again, filterToken, materiaFilter, exceptNorm>>

\* generate_exercises builds the materia filter for the caller's materia text
PipelineBuildsFilter ==
    /\ text # <<>>
    /\ materiaFilter' = Some(PipelineFilterMateria(text))
    /\ UNCHANGED <<text, token, again, filterToken, materiaStored, exceptNorm>>

\* the evaluation script builds the materia filter for the caller's materia text
JudgeBuildsFilter ==
    /\ text # <<>>
    /\ materiaFilter' = Some(JudgeFilterMateria(text))
    /\ UNCHANGED <<text, token, again, filterToken, materiaStored, exceptNorm>>

\* a subject spelling has been chosen, nothing has been computed from it
InitNorm ==
    /\ text \in StringsUpTo(NormAlphabet, MaxTextLen)
    /\ token = None
    /\ again = None
    /\ filterToken = None
    /\ materiaStored = None
    /\ materiaFilter = None

NextNorm ==
    \/ Normalize
    \/ NormalizeAgain
    \/ RespellCase
    \/ RespellDiacritic
    \/ RespellSeparator

InitSpecNorm == InitNorm /\ InitAdd /\ IdleSearch /\ IdleMeta

SpecNorm == InitSpecNorm /\ [][NextNorm]_vars

NextMateria ==
    \/ LoaderStoresMateria
    \/ PipelineBuildsFilter
    \/ JudgeBuildsFilter

SpecMateria == InitSpecNorm /\ [][NextMateria]_vars

---------------------------------------------------------------------------
(* Searches: VectorStore.similarity_search, similarity_search_with_score,  *)
(* search_by_metadata, _convert_filter_to_chroma (src/src/vector_store.py) *)
(* and Retriever (src/src/retriever.py)                                    *)

\* A filter_dict is a sequence of <<key, value>> pairs with distinct keys, in
\* insertion order; an Optional[dict] argument is None or Some(dict).  A where
\* expression handed to the store is such a dict too; its values are plain
\* values, {"$eq": v} (EqOp) or, under the key "$and", a list of where dicts.

\* a value the store does not accept in a where expression (None)
NoneV == [t |-> "none", s |-> <<>>]

ValX == StrV(<<"x">>)
ValY == StrV(<<"y">>)

FilterKeys == {"materia", "tipo_documento", "difficulty_hint"}
FilterValues == {ValX, NoneV}

\* every dict over FilterKeys and FilterValues
FilterDicts ==
    UNION {{d \in [1..n -> FilterKeys \X FilterValues] :
                \A x, y \in 1..n : d[x][1] = d[y][1] => x = y} : n \in 0..3}

\* the chunks of the collection the searches run against
SearchStore ==
    << [id |-> 1, pos |-> 1, page_content |-> <<"a">>,
        metadata |-> [materia |-> ValX, tipo_documento |-> ValX, difficulty_hint |-> ValX]],
       [id |-> 2, pos |-> 2, page_content |-> <<"b">>,
        metadata |-> [materia |-> ValX, tipo_documento |-> ValY]],
       [id |-> 3, pos |-> 3, page_content |-> <<"c">>,
        metadata |-> [materia |-> ValY, tipo_documento |-> ValX]] >>

ScoreValues == {0, 1, 2}
KValues == {1, 2, 3}
ThresholdValues == {0, 1, 2}

EqOp(v) == [t |-> "eq", v |-> v]
AndList(items) == [t |-> "and", items |-> items]

\* _convert_filter_to_chroma with the test for several conditions off by one
\* (len(filter_dict) > 2): a two-pair filter keeps only its first pair
ConvertFilterOffByOne(filter_dict) ==
    IF filter_dict = <<>> THEN None
    ELSE IF Len(filter_dict) > 2
    THEN << <<"$and", AndList([x \in 1..Len(filter_dict) |->
                 << <<filter_dict[x][1], EqOp(filter_dict[x][2])>> >>])>> >>
    ELSE << <<filter_dict[1][1], EqOp(filter_dict[1][2])>> >>

\* _convert_filter_to_chroma, lines 598-610
ConvertFilter(filter_dict) ==
    IF filter_dict = <<>> THEN None
    ELSE IF Len(filter_dict) > 1
    THEN << <<"$and", AndList([x \in 1..Len(filter_dict) |->
                 << <<filter_dict[x][1], EqOp(filter_dict[x][2])>> >>])>> >>
    ELSE << <<filter_dict[1][1], EqOp(filter_dict[1][2])>> >>

\* if filter_dict: (neither None nor empty)
Truthy(opt) == opt # None /\ opt[1] # <<>>

\* --- the backing store (Chroma), as the source relies on it ---

\* the operand of a condition: {"$eq": v} or the plain value v
Operand(v) == IF v.t = "eq" THEN v.v ELSE v

\* a where dict with one key that is not an operator, and a value the store accepts
SimpleCondition(w) ==
    /\ Len(w) = 1
    /\ w[1][1] # "$and"
    /\ w[1][2].t \in {"eq", "str", "int", "bool"}
    /\ Operand(w[1][2]).t \in {"str", "int", "bool"}

\* the store accepts a where expression with exactly one top-level key: a
\* condition, or "$and" over at least two conditions; it raises on anything else
WhereValid(w) ==
    /\ Len(w) = 1
    /\ IF w[1][1] = "$and"
       THEN /\ w[1][2].t = "and"
            /\ Len(w[1][2].items) >= 2
            /\ \A x \in 1..Len(w[1][2].items) : SimpleCondition(w[1][2].items[x])
       ELSE SimpleCondition(w)

ConditionHolds(w, md) ==
    /\ w[1][1] \in DOMAIN md
    /\ md[w[1][1]] = Operand(w[1][2])

\* whether the chunk with metadata md satisfies the valid where expression w
WhereHolds(w, md) ==
    IF w[1][1] = "$and"
    THEN \A x \in 1..Len(w[1][2].items) : ConditionHolds(w[1][2].items[x], md)
    ELSE ConditionHolds(w, md)

\* the positions in the collection that a where argument selects (None and the
\* empty dict select everything)
Selected(w) ==
    {x \in 1..Len(store) : w = None \/ WhereHolds(w, store[x].metadata)}

\* the best-scored position of S (the earlier chunk on a tie)
Best(S) ==
    CHOOSE x \in S : \A y \in S :
        scores[x] > scores[y] \/ (scores[x] = scores[y] /\ x <= y)

\* the ids of the n best-scored chunks of S, best first
RECURSIVE TopK(_, _)
TopK(S, n) ==
    IF n = 0 \/ S = {} THEN <<>>
    ELSE <<store[Best(S)].id>> \o TopK(S \ {Best(S)}, n - 1)

\* the ids of the first n chunks of S in insertion order
RECURSIVE FirstK(_, _)
FirstK(S, n) ==
    IF n = 0 \/ S = {} THEN <<>>
    ELSE LET x == CHOOSE y \in S : \A z \in S : y <= z
         IN  <<store[x].id>> \o FirstK(S \ {x}, n - 1)

\* one call to the backing store: what was asked, and what came back
BackendCall(fn, n, w, thr) ==
    LET call == [fn |-> fn, k |-> n, filter |-> w, score_threshold |-> thr]
    IN  IF w # None /\ ~WhereValid(w)
        THEN [calls |-> <<call>>, result |-> <<>>, raised |-> TRUE]
        ELSE [calls |-> <<call>>, raised |-> FALSE,
              result |->
                IF fn = "get" THEN FirstK(Selected(w), n)
                ELSE TopK({x \in Selected(w) : thr = None \/ scores[x] >= thr[1]}, n)]

\* VectorStore.similarity_search with a second attempt after a failed one
VSSimilaritySearchRetry(n, filter_dict) ==
    LET o == IF Truthy(filter_dict)
             THEN BackendCall("similarity_search", n, ConvertFilter(filter_dict[1]), None)
             ELSE BackendCall("similarity_search", n, None, None)
    IN  IF o.raised THEN [o EXCEPT !.calls = o.calls \o o.calls] ELSE o

\* VectorStore.similarity_search, lines 428-449
VSSimilaritySearch(n, filter_dict) ==
    IF Truthy(filter_dict)
    THEN BackendCall("similarity_search", n, ConvertFilter(filter_dict[1]), None)
    ELSE BackendCall("similarity_search", n, None, None)

\* VectorStore.similarity_search_with_score, lines 468-488
VSSimilaritySearchWithScore(n, filter_dict) ==
    IF Truthy(filter_dict)
    THEN BackendCall("similarity_search_with_score", n, ConvertFilter(filter_dict[1]), None)
    ELSE BackendCall("similarity_search_with_score", n, None, None)

\* VectorStore.search_by_metadata, lines 561-586: the dict goes to
\* collection.get as it is
VSSearchByMetadata(filter_dict, limit) ==
    BackendCall("get", limit, filter_dict, None)

\* the outcome of an operation becomes the state
Outcome(o) ==
    /\ calls' = o.calls
    /\ result' = o.result
    /\ raised' = o.raised

SimilaritySearch ==
    \E n \in KValues, f \in {None} \cup {Some(d) : d \in FilterDicts} :
        /\ op' = [name |-> "similarity_search", k |-> n, filter |-> f,
                  include_scores |-> FALSE]
        /\ Outcome(VSSimilaritySearch(n, f))
        /\ UNCHANGED <<scores, retrVars, exceptSearch>>

SimilaritySearchWithScore ==
    \E n \in KValues, f \in {None} \cup {Some(d) : d \in FilterDicts} :
        /\ op' = [name |-> "similarity_search_with_score", k |-> n, filter |-> f,
                  include_scores |-> TRUE]
        /\ Outcome(VSSimilaritySearchWithScore(n, f))
        /\ UNCHANGED <<scores, retrVars, exceptSearch>>

SearchByMetadata ==
    \E n \in KValues, d \in FilterDicts :
        /\ op' = [name |-> "search_by_metadata", k |-> n, filter |-> Some(d),
                  include_scores |-> FALSE]
        /\ Outcome(VSSearchByMetadata(d, n))
        /\ UNCHANGED <<scores, retrVars, exceptSearch>>

\* --- Retriever ---

\* _create_native_retriever, lines 35-45: the retriever built from k and
\* score_threshold as they are at that moment
NativeRetriever(k, score_threshold) ==
    [search_type |-> "similarity_score_threshold", k |-> k,
     score_threshold |-> score_threshold]

ScoreOf(id) == scores[CHOOSE x \in 1..Len(store) : store[x].id = id]

\* the filters and the k arguments retrieve is called with (None: not given)
RetrFilters ==
    {None, Some(<<>>), Some(<< <<"materia", ValX>> >>),
     Some(<< <<"materia", ValX>>, <<"tipo_documento", ValX>> >>),
     Some(<< <<"materia", NoneV>> >>)}
RetrKs == {None, Some(0)} \cup {Some(n) : n \in KValues}

\* Retriever.retrieve, lines 66-104
RetrieveOutcome(k, filter_dict, include_scores) ==
    LET n == IF k = None \/ k = Some(0) THEN self_k ELSE k[1]
    IN  IF include_scores
        THEN LET o == VSSimilaritySearchWithScore(n, filter_dict)
             IN  [o EXCEPT !.result = SelectSeq(o.result,
                            LAMBDA id : ScoreOf(id) >= self_score_threshold)]
        ELSE IF filter_dict = None /\ n = self_k
        THEN BackendCall("native_retriever", native_retriever.k, None,
                         Some(native_retriever.score_threshold))
        ELSE VSSimilaritySearch(n, filter_dict)

Retrieve ==
    \E k \in RetrKs, f \in RetrFilters, include_scores \in BOOLEAN :
        /\ op' = [name |-> "retrieve", k |-> k, filter |-> f,
                  include_scores |-> include_scores]
        /\ Outcome(RetrieveOutcome(k, f, include_scores))
        /\ UNCHANGED <<scores, retrVars, exceptSearch>>

\* set_k without the rebuild of the native retriever
SetKNoRebuild ==
    \E k \in KValues :
        /\ self_k' = k
        /\ op' = [name |-> "set_k", k |-> Some(k), filter |-> None,
                  include_scores |-> FALSE]
        /\ Outcome([calls |-> <<>>, result |-> <<>>, raised |-> FALSE])
        /\ UNCHANGED <<native_retriever, self_score_threshold, scores, exceptSearch>>

\* Retriever.set_k, lines 234-239
SetK ==
    \E k \in KValues :
        /\ self_k' = k
        /\ native_retriever' = NativeRetriever(k, self_score_threshold)
        /\ op' = [name |-> "set_k", k |-> Some(k), filter |-> None,
                  include_scores |-> FALSE]
        /\ Outcome([calls |-> <<>>, result |-> <<>>, raised |-> FALSE])
        /\ UNCHANGED <<self_score_threshold, scores, exceptSearch>>

\* Retriever.set_score_threshold, lines 241-246
SetScoreThreshold ==
    \E threshold \in ThresholdValues :
        /\ self_score_threshold' = threshold
        /\ native_retriever' = NativeRetriever(self_k, threshold)
        /\ op' = [name |-> "set_score_threshold", k |-> Some(threshold),
                  filter |-> None, include_scores |-> FALSE]
        /\ Outcome([calls |-> <<>>, result |-> <<>>, raised |-> FALSE])
        /\ UNCHANGED <<self_k, scores, exceptSearch>>

\* a populated collection
PopulatedStore ==
    /\ given = <<>>
    /\ documents = <<>>
    /\ failing = {}
    /\ batch_size = 1
    /\ pc = "idle"
    /\ i = 0
    /\ j = 0
    /\ all_ids = <<>>
    /\ store = SearchStore
    /\ submitted = <<>>
    /\ repeats = 0

\* a populated collection and a query, scored against every chunk (best chunk
\* first, best chunk last, or all chunks tied)
InitSearch ==
    /\ PopulatedStore
    /\ IdleNorm
    /\ IdleMeta
    /\ scores \in {<<2, 1, 0>>, <<0, 1, 2>>, <<1, 1, 1>>}
    /\ op = NoOp
    /\ calls = <<>>
    /\ result = <<>>
    /\ raised = FALSE
    /\ self_k = 1
    /\ self_score_threshold = 0
    /\ native_retriever = NativeRetriever(1, 0)

\* the same, and a Retriever constructed over the collection
\* (Retriever.__init__, lines 28-33)
InitRetr ==
    /\ PopulatedStore
    /\ IdleNorm
    /\ IdleMeta
    /\ scores \in [1..Len(SearchStore) -> ScoreValues]
    /\ op = NoOp
    /\ calls = <<>>
    /\ result = <<>>
    /\ raised = FALSE
    /\ self_k \in KValues
    /\ self_score_threshold \in ThresholdValues
    /\ native_retriever = NativeRetriever(self_k, self_score_threshold)

NextSearch ==
    \/ SimilaritySearch
    \/ SimilaritySearchWithScore
    \/ SearchByMetadata

SpecSearch == InitSearch /\ [][NextSearch]_vars

NextRetr ==
    \/ Retrieve
    \/ SetK
    \/ SetScoreThreshold

SpecRetr == InitRetr /\ [][NextRetr]_vars

\* RAGPipeline.search_materials (src/src/rag_pipeline.py), lines 233-254: what
\* its caller gets, from the outcome of self.retriever.retrieve
SearchMaterialsOutcome(k, filter_dict) ==
    LET o == RetrieveOutcome(Some(k), filter_dict, FALSE)
    IN  IF o.raised
        THEN [calls |-> o.calls, result |-> <<>>, raised |-> FALSE]
        ELSE o

SearchMaterials ==
    \E k \in KValues, f \in RetrFilters :
        /\ op' = [name |-> "search_materials", k |-> Some(k), filter |-> f,
                  include_scores |-> FALSE]
        /\ Outcome(SearchMaterialsOutcome(k, f))
        /\ UNCHANGED <<scores, retrVars, exceptSearch>>

NextSearchMaterials == SearchMaterials

SpecSearchMaterials == InitRetr /\ [][NextSearchMaterials]_vars

\* the three operations that search the store by similarity, on one collection
NextSimilarity ==
    \/ SimilaritySearch
    \/ SimilaritySearchWithScore
    \/ Retrieve

SpecSimilarity == InitSearch /\ [][NextSimilarity]_vars

---------------------------------------------------------------------------
(* DocumentLoader.extract_academic_metadata (src/src/data_loading.py)      *)

\* A path is the sequence of its parts (Path.parts), each part a string.

\* --- the pieces the regular expressions of the loader are made of ---

DigitSet == {DigitChars[x] : x \in 1..Len(DigitChars)}
\* [_\s]
SepChars == {"_"} \cup SpaceChars
\* [-_\s]
DashSepChars == {"-", "_"} \cup SpaceChars

DigitValue(c) == (CHOOSE x \in 1..Len(DigitChars) : DigitChars[x] = c) - 1

\* int(s) for a string of digits
RECURSIVE ParseInt(_)
ParseInt(s) ==
    IF s = <<>> THEN 0
    ELSE 10 * ParseInt(SubSeq(s, 1, Len(s) - 1)) + DigitValue(s[Len(s)])

\* the character at position p, "" beyond the ends of s
At(s, p) == IF p \in 1..Len(s) THEN s[p] ELSE ""

\* whether w occurs in s at position p
StartsAt(s, p, w) ==
    /\ p >= 1
    /\ p + Len(w) - 1 <= Len(s)
    /\ \A x \in 1..Len(w) : s[p + x - 1] = w[x]

\* w in s
Contains(s, w) == \E p \in 1..Len(s) : StartsAt(s, p, w)

\* the length of the longest run of characters of cls that starts at p
Run(s, p, cls) ==
    CHOOSE n \in 0..(Len(s) + 1 - p) :
        /\ \A x \in p..(p + n - 1) : s[x] \in cls
        /\ At(s, p + n) \notin cls

Least(ps) == CHOOSE x \in ps : \A y \in ps : x <= y

\* the digits of the run that starts at q
DigitsAt(s, q) == SubSeq(s, q, q + Run(s, q, DigitSet) - 1)

\* kw[_\s]?(cls) matched at p: the position of the group, 0 without a match
GroupAfter(s, p, kw, cls) ==
    LET a == p + Len(kw)
    IN  IF ~StartsAt(s, p, kw) THEN 0
        ELSE IF At(s, a) \in SepChars /\ At(s, a + 1) \in cls THEN a + 1
        ELSE IF At(s, a) \in cls THEN a
        ELSE 0

\* re.search of (kw1|kw2|...)[_\s]?(cls): the group position of the leftmost
\* match, 0 without a match
SearchGroup(s, kws, cls) ==
    LET ps == {p \in 1..Len(s) : \E kw \in kws : GroupAfter(s, p, kw, cls) # 0}
    IN  IF ps = {} THEN 0
        ELSE GroupAfter(s, Least(ps),
                        CHOOSE kw \in kws : GroupAfter(s, Least(ps), kw, cls) # 0, cls)

\* re.search of kw(cls): the group position of the leftmost match, 0 without
DirectGroup(s, kw, cls) ==
    LET ps == {p \in 1..Len(s) : StartsAt(s, p, kw) /\ At(s, p + Len(kw)) \in cls}
    IN  IF ps = {} THEN 0 ELSE Least(ps) + Len(kw)

\* --- helpers of extract_academic_metadata ---

\* _extract_unit_number, lines 551-554: re.search(r'[Uu]nidad[_\s]?(\d+)')
ExtractUnitNumber(unit_name) ==
    LET q == SearchGroup(unit_name, {<<"U", "n", "i", "d", "a", "d">>, <<"u", "n", "i", "d", "a", "d">>}, DigitSet)
    IN  IF q = 0 THEN None ELSE Some(ParseInt(DigitsAt(unit_name, q)))

\* _extract_unit_topic without the replacement of the underscores
ExtractUnitTopicKeepUnderscores(unit_name) ==
    LET q == IF GroupAfter(unit_name, 1, <<"U", "n", "i", "d", "a", "d">>, DigitSet) # 0
             THEN GroupAfter(unit_name, 1, <<"U", "n", "i", "d", "a", "d">>, DigitSet)
             ELSE GroupAfter(unit_name, 1, <<"u", "n", "i", "d", "a", "d">>, DigitSet)
        c == q + Run(unit_name, q, DigitSet)
        d == IF At(unit_name, c) \in SepChars THEN c + 1 ELSE c
    IN  IF q = 0 THEN unit_name ELSE SubSeq(unit_name, d, Len(unit_name))

\* _extract_unit_topic, lines 566-570:
\* re.sub(r'^[Uu]nidad[_\s]?\d+[_\s]?', '', unit_name).replace('_', ' ')
ExtractUnitTopic(unit_name) ==
    LET q == IF GroupAfter(unit_name, 1, <<"U", "n", "i", "d", "a", "d">>, DigitSet) # 0
             THEN GroupAfter(unit_name, 1, <<"U", "n", "i", "d", "a", "d">>, DigitSet)
             ELSE GroupAfter(unit_name, 1, <<"u", "n", "i", "d", "a", "d">>, DigitSet)
        c == q + Run(unit_name, q, DigitSet)
        d == IF At(unit_name, c) \in SepChars THEN c + 1 ELSE c
        cleaned == IF q = 0 THEN unit_name ELSE SubSeq(unit_name, d, Len(unit_name))
    IN  ReplaceChar(cleaned, "_", SP)

\* unit_patterns, lines 405-410
UnitFolderKeywords == {<<"u", "n", "i", "d", "a", "d">>, <<"t", "e", "m", "a">>, <<"c", "a", "p", "i", "t", "u", "l", "o">>, <<"m", "o", "d", "u", "l", "o">>}

\* _is_unit_folder, lines 401-420
IsUnitFolder(folder_name) ==
    \/ \E kw \in UnitFolderKeywords : SearchGroup(Lower(folder_name), {kw}, DigitSet) # 0
    \/ /\ Run(folder_name, 1, DigitSet) >= 1
       /\ At(folder_name, 1 + Run(folder_name, 1, DigitSet)) \in SepChars

\* tipo_mapping, lines 435-457
TipoMapping ==
    << <<<<"a", "p", "u", "n", "t", "e">>, <<"a", "p", "u", "n", "t", "e", "s">>>>, <<<<"a", "p", "u", "n", "t", "e", "s">>, <<"a", "p", "u", "n", "t", "e", "s">>>>,
       <<<<"t", "e", "o", "r", "i", "c", "a">>, <<"a", "p", "u", "n", "t", "e", "s">>>>, <<<<"t", "e", "o", "r", "i", "c", "a", "s">>, <<"a", "p", "u", "n", "t", "e", "s">>>>,
       <<<<"t", "e", "o", "r", "i", "a">>, <<"a", "p", "u", "n", "t", "e", "s">>>>,
       <<<<"e", "j", "e", "r", "c", "i", "c", "i", "o">>, <<"e", "j", "e", "r", "c", "i", "c", "i", "o", "s">>>>, <<<<"e", "j", "e", "r", "c", "i", "c", "i", "o", "s">>, <<"e", "j", "e", "r", "c", "i", "c", "i", "o", "s">>>>,
       <<<<"p", "r", "a", "c", "t", "i", "c", "a">>, <<"e", "j", "e", "r", "c", "i", "c", "i", "o", "s">>>>, <<<<"p", "r", "a", "c", "t", "i", "c", "a", "s">>, <<"e", "j", "e", "r", "c", "i", "c", "i", "o", "s">>>>,
       <<<<"g", "u", "i", "a">>, <<"g", "u", "i", "a", "s">>>>, <<<<"g", "u", "i", "a", "s">>, <<"g", "u", "i", "a", "s">>>>,
       <<<<"e", "x", "a", "m", "e", "n">>, <<"e", "x", "a", "m", "e", "n", "e", "s">>>>, <<<<"e", "x", "a", "m", "e", "n", "e", "s">>, <<"e", "x", "a", "m", "e", "n", "e", "s">>>>,
       <<<<"p", "a", "r", "c", "i", "a", "l">>, <<"p", "a", "r", "c", "i", "a", "l", "e", "s">>>>, <<<<"p", "a", "r", "c", "i", "a", "l", "e", "s">>, <<"p", "a", "r", "c", "i", "a", "l", "e", "s">>>>,
       <<<<"f", "i", "n", "a", "l">>, <<"f", "i", "n", "a", "l", "e", "s">>>>, <<<<"f", "i", "n", "a", "l", "e", "s">>, <<"f", "i", "n", "a", "l", "e", "s">>>>,
       <<<<"l", "a", "b", "o", "r", "a", "t", "o", "r", "i", "o">>, <<"l", "a", "b", "o", "r", "a", "t", "o", "r", "i", "o", "s">>>>, <<<<"l", "a", "b", "o", "r", "a", "t", "o", "r", "i", "o", "s">>, <<"l", "a", "b", "o", "r", "a", "t", "o", "r", "i", "o", "s">>>>,
       <<<<"p", "r", "o", "y", "e", "c", "t", "o">>, <<"p", "r", "o", "y", "e", "c", "t", "o", "s">>>>, <<<<"p", "r", "o", "y", "e", "c", "t", "o", "s">>, <<"p", "r", "o", "y", "e", "c", "t", "o", "s">>>> >>

\* _normalize_tipo_documento, lines 432-459: tipo_mapping.get(tipo_lower, tipo_raw)
NormalizeTipoDocumento(tipo_raw) ==
    LET hits == {x \in 1..Len(TipoMapping) : TipoMapping[x][1] = Lower(tipo_raw)}
    IN  IF hits = {} THEN tipo_raw ELSE TipoMapping[CHOOSE x \in hits : TRUE][2]

\* patterns, lines 487-492, without the last one
UnitFilenameKeywords == <<<<"u", "n", "i", "d", "a", "d">>, <<"t", "e", "m", "a">>, <<"c", "a", "p", "i", "t", "u", "l", "o">>, <<"c", "a", "p">>>>

\* u(\d+)[_\s]: the group position of the leftmost match, 0 without a match
SearchUDigits(s) ==
    LET ps == {p \in 1..Len(s) :
                 /\ s[p] = "u"
                 /\ Run(s, p + 1, DigitSet) >= 1
                 /\ At(s, p + 1 + Run(s, p + 1, DigitSet)) \in SepChars}
    IN  IF ps = {} THEN 0 ELSE Least(ps) + 1

\* _extract_unit_from_filename, lines 476-500: "Unidad <digits>" or None
ExtractUnitFromFilename(filename) ==
    LET d == Run(filename, 1, DigitSet)
        w == Run(filename, 1 + d, SpaceChars)
        low == Lower(filename)
        hits == {x \in 1..Len(UnitFilenameKeywords) :
                   SearchGroup(low, {UnitFilenameKeywords[x]}, DigitSet) # 0}
    IN  IF d >= 1 /\ (w >= 1 \/ At(filename, 1 + d + w) \in {"-", "_"})
        THEN Some(<<"U", "n", "i", "d", "a", "d", SP>> \o SubSeq(filename, 1, d))
        ELSE IF hits # {}
        THEN Some(<<"U", "n", "i", "d", "a", "d", SP>> \o
                  DigitsAt(low, SearchGroup(low, {UnitFilenameKeywords[Least(hits)]}, DigitSet)))
        ELSE IF SearchUDigits(low) # 0
        THEN Some(<<"U", "n", "i", "d", "a", "d", SP>> \o DigitsAt(low, SearchUDigits(low)))
        ELSE None

\* filename.rsplit('.', 1)[0]
WithoutExtension(filename) ==
    LET dots == {p \in 1..Len(filename) : filename[p] = "."}
    IN  IF dots = {} THEN filename
        ELSE SubSeq(filename, 1, (CHOOSE p \in dots : \A q \in dots : q <= p) - 1)

\* \s*[-_\s]+(.+)$ matched at position b: the group, None without a match
\* (when the separators run to the end of the name, the group is the last one)
TopicGroup(s, b) ==
    LET r == Run(s, b, DashSepChars)
    IN  IF r = 0 THEN None
        ELSE IF b + r <= Len(s) THEN Some(SubSeq(s, b + r, Len(s)))
        ELSE IF r >= 2 THEN Some(<<s[Len(s)]>>)
        ELSE None

\* topic.strip(), then re.sub(r'\s+', ' ', topic)
CleanTopic(topic) == CollapseClass(Strip(topic), SpaceChars)

\* _extract_unit_topic_from_filename, lines 517-537
ExtractUnitTopicFromFilename(filename) ==
    LET name == WithoutExtension(filename)
        d == Run(name, 1, DigitSet)
        first == IF d >= 1 THEN TopicGroup(name, 1 + d) ELSE None
        kws == {kw \in {<<"u", "n", "i", "d", "a", "d">>, <<"t", "e", "m", "a">>, <<"c", "a", "p", "i", "t", "u", "l", "o">>} :
                  GroupAfter(Lower(name), 1, kw, DigitSet) # 0}
        q == IF kws = {} THEN 0
             ELSE GroupAfter(Lower(name), 1, CHOOSE kw \in kws : TRUE, DigitSet)
        second == IF q = 0 THEN None ELSE TopicGroup(name, q + Run(name, q, DigitSet))
    IN  IF first # None THEN Some(CleanTopic(first[1]))
        ELSE IF second # None THEN Some(CleanTopic(second[1]))
        ELSE None

\* materia_keywords, lines 587-594, in the order of the dict
MateriaKeywords ==
    << <<<<"p", "r", "o", "b", "a", "b", "i", "l", "i", "d", "a", "d">>, "Probabilidad y estadistica">>,
       <<<<"e", "s", "t", "a", "d", "i", "s", "t", "i", "c", "a">>, "Probabilidad y estadistica">>,
       <<<<"s", "i", "a">>, "Sistemas de Inteligencia Artificial">>,
       <<<<"i", "n", "t", "e", "l", "i", "g", "e", "n", "c", "i", "a">>, "Sistemas de Inteligencia Artificial">>,
       <<<<"a", "i">>, "Sistemas de Inteligencia Artificial">>,
       <<<<"m", "a", "c", "h", "i", "n", "e", SP, "l", "e", "a", "r", "n", "i", "n", "g">>, "Sistemas de Inteligencia Artificial">> >>

\* _detect_materia_fallback, lines 583-600; the result is one of three fixed
\* names, kept whole ("whole" strings are tagged so)
DetectMateriaFallback(parts) ==
    LET filename_lower == Lower(parts[Len(parts)])
        parent_dir == IF Len(parts) >= 2 THEN Lower(parts[Len(parts) - 1]) ELSE <<>>
        hits == {x \in 1..Len(MateriaKeywords) :
                   \/ Contains(filename_lower, MateriaKeywords[x][1])
                   \/ Contains(parent_dir, MateriaKeywords[x][1])}
    IN  IF hits = {} THEN "No especificada" ELSE MateriaKeywords[Least(hits)][2]

\* _detect_tipo_documento_fallback, lines 610-625
DetectTipoDocumentoFallback(name) ==
    LET filename_lower == Lower(name)
    IN  IF Contains(filename_lower, <<"a", "p", "u", "n", "t", "e">>) THEN <<"a", "p", "u", "n", "t", "e", "s">>
        ELSE IF Contains(filename_lower, <<"g", "u", "i", "a">>) THEN <<"g", "u", "i", "a", "s">>
        ELSE IF Contains(filename_lower, <<"e", "x", "a", "m", "e", "n">>) THEN <<"e", "x", "a", "m", "e", "n", "e", "s">>
        ELSE IF Contains(filename_lower, <<"p", "a", "r", "c", "i", "a", "l">>) THEN <<"p", "a", "r", "c", "i", "a", "l", "e", "s">>
        ELSE IF Contains(filename_lower, <<"f", "i", "n", "a", "l">>) THEN <<"f", "i", "n", "a", "l", "e", "s">>
        ELSE IF \/ Contains(filename_lower, <<"e", "j", "e", "r", "c", "i", "c", "i", "o">>)
                \/ Contains(filename_lower, <<"p", "r", "a", "c", "t", "i", "c", "a">>) THEN <<"e", "j", "e", "r", "c", "i", "c", "i", "o", "s">>
        ELSE <<"d", "o", "c", "u", "m", "e", "n", "t", "o">>

\* --- _extract_exam_metadata, lines 325-389 ---

OneTwo == {"1", "2"}

\* re.search(r'(20\d{2})', filename): the position of the leftmost match, 0 without
SearchYear(filename) ==
    LET ps == {p \in 1..Len(filename) :
                 /\ StartsAt(filename, p, <<"2", "0">>)
                 /\ At(filename, p + 2) \in DigitSet
                 /\ At(filename, p + 3) \in DigitSet}
    IN  IF ps = {} THEN 0 ELSE Least(ps)

\* re.search(r'cuat[rimestre]*[_\s]?([12])'): the group position, 0 without a match
SearchCuat(s) ==
    LET GroupAt(p) ==
            LET a == p + 4 + Run(s, p + 4, {"r", "i", "m", "e", "s", "t"})
            IN  IF ~StartsAt(s, p, <<"c", "u", "a", "t">>) THEN 0
                ELSE IF At(s, a) \in SepChars /\ At(s, a + 1) \in OneTwo THEN a + 1
                ELSE IF At(s, a) \in OneTwo THEN a
                ELSE 0
        ps == {p \in 1..Len(s) : GroupAt(p) # 0}
    IN  IF ps = {} THEN 0 ELSE GroupAt(Least(ps))

\* cuatrimestre_patterns, lines 335-345: the first pattern that matches decides
ExamCuatrimestre(filename_lower) ==
    IF SearchGroup(filename_lower, {<<"q">>}, OneTwo) # 0
    THEN Some(DigitValue(filename_lower[SearchGroup(filename_lower, {<<"q">>}, OneTwo)]))
    ELSE IF SearchCuat(filename_lower) # 0
    THEN Some(DigitValue(filename_lower[SearchCuat(filename_lower)]))
    ELSE IF DirectGroup(filename_lower, <<"c">>, OneTwo) # 0
    THEN Some(DigitValue(filename_lower[DirectGroup(filename_lower, <<"c">>, OneTwo)]))
    ELSE None

\* whether position p is the end of s or holds a separator: (?:[_\s]|$)
SepOrEnd(s, p) == p = Len(s) + 1 \/ At(s, p) \in SepChars

\* (?:^|[_\s])([12])[_\s]?p(?:[_\s]|$): the group position, 0 without a match
SearchNumberThenP(s) ==
    LET ps == {p \in 1..Len(s) :
                 /\ s[p] \in OneTwo
                 /\ p = 1 \/ At(s, p - 1) \in SepChars
                 /\ \/ At(s, p + 1) \in SepChars /\ At(s, p + 2) = "p" /\ SepOrEnd(s, p + 3)
                    \/ At(s, p + 1) = "p" /\ SepOrEnd(s, p + 2)}
    IN  IF ps = {} THEN 0 ELSE Least(ps)

\* p[_\s]?([12])(?:[_\s]|$): the group position, 0 without a match
SearchPThenNumber(s) ==
    LET GroupAt(p) ==
            IF At(s, p) # "p" THEN 0
            ELSE IF At(s, p + 1) \in SepChars /\ At(s, p + 2) \in OneTwo /\ SepOrEnd(s, p + 3)
            THEN p + 2
            ELSE IF At(s, p + 1) \in OneTwo /\ SepOrEnd(s, p + 2) THEN p + 1
            ELSE 0
        ps == {p \in 1..Len(s) : GroupAt(p) # 0}
    IN  IF ps = {} THEN 0 ELSE GroupAt(Least(ps))

\* ([12])[erdo]*[_\s]?parcial: the group position, 0 without a match
SearchOrdinalParcial(s) ==
    LET Matches(p) ==
            LET a == p + 1 + Run(s, p + 1, {"e", "r", "d", "o"})
            IN  /\ s[p] \in OneTwo
                /\ \/ At(s, a) \in SepChars /\ StartsAt(s, a + 1, <<"p", "a", "r", "c", "i", "a", "l">>)
                   \/ StartsAt(s, a, <<"p", "a", "r", "c", "i", "a", "l">>)
        ps == {p \in 1..Len(s) : Matches(p)}
    IN  IF ps = {} THEN 0 ELSE Least(ps)

\* parcial_num without the first pattern (the number before the p)
ParcialNumWithoutNumberThenP(filename_lower) ==
    IF SearchPThenNumber(filename_lower) # 0
    THEN DigitValue(filename_lower[SearchPThenNumber(filename_lower)])
    ELSE IF SearchGroup(filename_lower, {<<"p", "a", "r", "c", "i", "a", "l">>}, OneTwo) # 0
    THEN DigitValue(filename_lower[SearchGroup(filename_lower, {<<"p", "a", "r", "c", "i", "a", "l">>}, OneTwo)])
    ELSE IF SearchOrdinalParcial(filename_lower) # 0
    THEN DigitValue(filename_lower[SearchOrdinalParcial(filename_lower)])
    ELSE 1

\* lines 351-366: parcial_num
ParcialNum(filename_lower) ==
    IF SearchNumberThenP(filename_lower) # 0
    THEN DigitValue(filename_lower[SearchNumberThenP(filename_lower)])
    ELSE IF SearchPThenNumber(filename_lower) # 0
    THEN DigitValue(filename_lower[SearchPThenNumber(filename_lower)])
    ELSE IF SearchGroup(filename_lower, {<<"p", "a", "r", "c", "i", "a", "l">>}, OneTwo) # 0
    THEN DigitValue(filename_lower[SearchGroup(filename_lower, {<<"p", "a", "r", "c", "i", "a", "l">>}, OneTwo)])
    ELSE IF SearchOrdinalParcial(filename_lower) # 0
    THEN DigitValue(filename_lower[SearchOrdinalParcial(filename_lower)])
    ELSE 1

\* lines 347-371: tipo_examen, None when no branch sets it
ExamTipo(filename_lower) ==
    IF \/ Contains(filename_lower, <<"r", "e", "c", "u", "p">>)
       \/ Contains(filename_lower, <<"r", "e", "c", "u", "p", "e", "r", "a", "t", "o", "r", "i", "o">>)
       \/ Contains(filename_lower, <<"r", "e", "c", "u", "p", "e", "r", "a", "c", "i", "o", "n">>)
    THEN Some(<<"r", "e", "c", "u", "p", "e", "r", "a", "t", "o", "r", "i", "o">>)
    ELSE IF Contains(filename_lower, <<"f", "i", "n", "a", "l">>) THEN Some(<<"f", "i", "n", "a", "l">>)
    ELSE IF Contains(filename_lower, <<"p", "a", "r", "c", "i", "a", "l">>) \/ Contains(filename_lower, <<"p">>)
    THEN IF ParcialNum(filename_lower) = 1 THEN Some(<<"p", "r", "i", "m", "e", "r", "_", "p", "a", "r", "c", "i", "a", "l">>)
         ELSE Some(<<"s", "e", "g", "u", "n", "d", "o", "_", "p", "a", "r", "c", "i", "a", "l">>)
    ELSE None

\* c.upper() for the characters a tema can be
UpperChar(c) ==
    IF \E x \in 1..Len(AsciiLower) : AsciiLower[x] = c
    THEN AsciiUpper[CHOOSE x \in 1..Len(AsciiLower) : AsciiLower[x] = c]
    ELSE c

\* [_\s]([A-D])(?:\.|$): the group position, 0 without a match
SearchLetterBeforeDot(s) ==
    LET ps == {p \in 1..Len(s) :
                 /\ s[p] \in SepChars
                 /\ At(s, p + 1) \in {"A", "B", "C", "D"}
                 /\ At(s, p + 2) = "." \/ p + 2 = Len(s) + 1}
    IN  IF ps = {} THEN 0 ELSE Least(ps) + 1

\* tema_patterns, lines 375-387: the first pattern that matches decides
ExamTema(filename) ==
    LET first == SearchGroup(filename, {<<"t", "e", "m", "a">>},
                             {"A", "B", "C", "D", "a", "b", "c", "d", "1", "2", "3", "4"})
        second == SearchLetterBeforeDot(filename)
        third == SearchGroup(filename, {<<"t", "e", "m", "a">>}, {"1", "2", "3", "4"})
    IN  IF first # 0 THEN Some(<<UpperChar(filename[first])>>)
        ELSE IF second # 0 THEN Some(<<UpperChar(filename[second])>>)
        ELSE IF third # 0 THEN Some(<<UpperChar(filename[third])>>)
        ELSE None

\* _extract_exam_metadata, lines 325-389
ExtractExamMetadata(filename) ==
    LET filename_lower == Lower(filename)
        y == SearchYear(filename)
        m1 == IF y = 0 THEN EmptyDict
              ELSE Put(EmptyDict, "año", IntV(ParseInt(SubSeq(filename, y, y + 3))))
        c == ExamCuatrimestre(filename_lower)
        m2 == IF c = None THEN m1 ELSE Put(m1, "cuatrimestre", IntV(c[1]))
        e == ExamTipo(filename_lower)
        m3 == IF e = None THEN m2 ELSE Put(m2, "tipo_examen", StrV(e[1]))
        t == ExamTema(filename)
    IN  IF t = None THEN m3 ELSE Put(m3, "tema", StrV(t[1]))

\* --- extract_academic_metadata, lines 214-302 ---

\* parts.index(part); 0 when part is not in parts
IndexOf(parts, part) ==
    IF \E x \in 1..Len(parts) : parts[x] = part
    THEN Least({x \in 1..Len(parts) : parts[x] = part})
    ELSE 0

\* lines 219-231: the parts after 'docs', else after 'data', else the last four
PathAfterDocs(parts) ==
    IF IndexOf(parts, <<"d", "o", "c", "s">>) # 0 THEN Drop(parts, IndexOf(parts, <<"d", "o", "c", "s">>))
    ELSE IF IndexOf(parts, <<"d", "a", "t", "a">>) # 0 THEN Drop(parts, IndexOf(parts, <<"d", "a", "t", "a">>))
    ELSE IF Len(parts) >= 4 THEN Drop(parts, Len(parts) - 4)
    ELSE parts

\* lines 248-261: the second level is a unit folder
UnitFolderFields(metadata, path_after_docs, name) ==
    LET level2_raw == path_after_docs[2]
        unit_number == ExtractUnitNumber(level2_raw)
        m1 == IF unit_number # None
              THEN Put(metadata, "unidad_numero", IntV(unit_number[1]))
              ELSE metadata
        m2 == Put(m1, "unidad_tema", StrV(ExtractUnitTopic(level2_raw)))
    IN  IF Len(path_after_docs) >= 3
        THEN Put(m2, "tipo_documento", StrV(NormalizeTipoDocumento(path_after_docs[3])))
        ELSE Put(m2, "tipo_documento", StrV(DetectTipoDocumentoFallback(name)))

\* lines 262-279: the second level is a document-type folder
TypeFolderFields(metadata, path_after_docs, name) ==
    LET m1 == Put(metadata, "tipo_documento",
                  StrV(NormalizeTipoDocumento(path_after_docs[2])))
        unit_from_file == ExtractUnitFromFilename(name)
        q == IF unit_from_file = None THEN 0
             ELSE DirectGroup(unit_from_file[1], <<"U", "n", "i", "d", "a", "d", SP>>, DigitSet)
        m2 == IF q # 0
              THEN Put(m1, "unidad_numero", IntV(ParseInt(DigitsAt(unit_from_file[1], q))))
              ELSE m1
        unit_topic_from_file == ExtractUnitTopicFromFilename(name)
    IN  IF unit_topic_from_file # None /\ unit_topic_from_file[1] # <<>>
        THEN Put(m2, "unidad_tema", StrV(unit_topic_from_file[1]))
        ELSE m2

\* lines 284-291: nivel_sugerido from the file name
NivelSugerido(metadata, name) ==
    LET filename_lower == Lower(name)
    IN  IF \/ Contains(filename_lower, <<"b", "a", "s", "i", "c", "o">>)
           \/ Contains(filename_lower, <<"i", "n", "t", "r", "o", "d", "u", "c", "t", "o", "r", "i", "o">>)
           \/ Contains(filename_lower, <<"i", "n", "t", "r", "o">>)
        THEN Put(metadata, "nivel_sugerido", StrV(<<"i", "n", "t", "r", "o", "d", "u", "c", "t", "o", "r", "i", "o">>))
        ELSE IF Contains(filename_lower, <<"a", "v", "a", "n", "z", "a", "d", "o">>)
        THEN Put(metadata, "nivel_sugerido", StrV(<<"a", "v", "a", "n", "z", "a", "d", "o">>))
        ELSE IF \/ Contains(filename_lower, <<"i", "n", "t", "e", "r", "m", "e", "d", "i", "o">>)
                \/ Contains(filename_lower, <<"m", "e", "d", "i", "o">>)
        THEN Put(metadata, "nivel_sugerido", StrV(<<"i", "n", "t", "e", "r", "m", "e", "d", "i", "o">>))
        ELSE metadata

ExamKinds == {<<"e", "x", "a", "m", "e", "n", "e", "s">>, <<"p", "a", "r", "c", "i", "a", "l", "e", "s">>, <<"f", "i", "n", "a", "l", "e", "s">>}

\* lines 293-300 without the two pops of the unit fields
ExamFieldsKeepUnit(metadata, name) ==
    IF metadata["tipo_documento"].s \in ExamKinds
    THEN Update(metadata, ExtractExamMetadata(name))
    ELSE metadata

\* lines 293-300: exam metadata replaces the unit fields of an exam
ExamFields(metadata, name) ==
    IF metadata["tipo_documento"].s \in ExamKinds
    THEN Pop(Pop(Update(metadata, ExtractExamMetadata(name)), "unidad_numero"),
             "unidad_tema")
    ELSE metadata

\* extract_academic_metadata, lines 214-302
ExtractAcademicMetadata(parts) ==
    LET name == parts[Len(parts)]
        path_after_docs == PathAfterDocs(parts)
        m1 == Put(EmptyDict, "materia",
                  StrV(IF Len(path_after_docs) >= 1
                       THEN LoaderMateria(path_after_docs[1])
                       ELSE DetectMateriaFallback(parts)))
        m2 == IF Len(path_after_docs) >= 2
              THEN IF IsUnitFolder(path_after_docs[2])
                   THEN UnitFolderFields(m1, path_after_docs, name)
                   ELSE TypeFolderFields(m1, path_after_docs, name)
              ELSE Put(m1, "tipo_documento", StrV(DetectTipoDocumentoFallback(name)))
    IN  ExamFields(NivelSugerido(m2, name), name)

\* --- the paths extract_academic_metadata is applied to ---

Anchors == {<<<<"d", "o", "c", "s">>>>, <<<<"h", "o", "m", "e">>, <<"d", "a", "t", "a">>>>, <<<<"h", "o", "m", "e">>>>}
Materias == {<<"P", "r", "o", "b", "_", "y", "_", "e", "s", "t">>}
Level2Folders ==
    {<<"U", "n", "i", "d", "a", "d", "_", "0", "1", "_", "V", "a", "r", "i", "a", "b", "l", "e", "s">>, <<"U", "n", "i", "d", "a", "d", "_", "1", "2", "_", "V", "a", "r", "_", "A", "l">>, <<"U", "n", "i", "d", "a", "d", SP, "2">>, <<"T", "e", "m", "a", "_", "0", "3">>, <<"C", "a", "p", "i", "t", "u", "l", "o", "_", "4", "_", "X">>, <<"M", "o", "d", "u", "l", "o", "_", "5">>,
     <<"3", "_", "I", "n", "t", "r", "o">>, <<"G", "u", "i", "a", "s">>, <<"E", "x", "a", "m", "e", "n", "e", "s">>, <<"p", "a", "r", "c", "i", "a", "l">>, <<"F", "i", "n", "a", "l", "e", "s">>, <<"A", "p", "u", "n", "t", "e">>, <<"o", "t", "r", "o", "s">>}
Level3Folders == {<<"a", "p", "u", "n", "t", "e", "s">>, <<"E", "x", "a", "m", "e", "n", "e", "s">>, <<"P", "r", "a", "c", "t", "i", "c", "a">>}
FileNames ==
    {<<"2", "0", "2", "3", "_", "Q", "1", "_", "2", "P", "_", "A", ".", "p", "d", "f">>, <<"2", "0", "2", "4", "_", "Q", "2", "_", "1", "P", "_", "D", ".", "p", "d", "f">>, <<"2", "0", "0", "0", "_", "Q", "1", "_", "1", "P", "_", "B", ".", "t", "x", "t">>, <<"1", "8", SP, "-", SP, "I", "n", "t", "e", "r", "v", "a", "l", "o", "s", ".", "p", "d", "f">>, <<"t", "e", "o", "r", "i", "a", ".", "p", "d", "f">>, <<"f", "i", "n", "a", "l", "_", "2", "0", "2", "2", ".", "t", "x", "t">>,
     <<"r", "e", "c", "u", "p", "2", "0", "1", "9", "_", "c", "u", "a", "t", "2", ".", "p", "d", "f">>, <<"g", "u", "i", "a", "_", "b", "a", "s", "i", "c", "o", ".", "p", "d", "f">>, <<"U", "n", "i", "d", "a", "d", SP, "5", SP, "-", SP, "T", "e", "m", "a", ".", "p", "d", "f">>,
     <<"P", "a", "r", "c", "i", "a", "l", "1", "_", "2", "0", "2", "2", "_", "c", "u", "a", "t", "2", "_", "t", "e", "m", "a", "1", ".", "p", "d", "f">>, <<"a", "p", "u", "n", "t", "e", "_", "a", "v", "a", "n", "z", "a", "d", "o", ".", "p", "d", "f">>,
     <<"t", "e", "m", "a", "_", "3", "_", "c", "l", "u", "s", "t", "e", "r", "i", "n", "g", ".", "p", "d", "f">>, <<"2", "0", "2", "2", "_", "c", "2", ".", "t", "x", "t">>, <<"e", "x", "a", "m", "e", "n", "_", "i", "n", "t", "e", "r", "m", "e", "d", "i", "o", ".", "d", "o", "c", "x">>}

\* <anchor>/<file>, <anchor>/<materia>/<file>, <anchor>/<materia>/<level 2>/<file>
\* and <anchor>/<materia>/<level 2>/<level 3>/<file>
FilePaths ==
    {a \o <<f>> : a \in Anchors, f \in FileNames}
    \cup {a \o <<m, f>> : a \in Anchors, m \in Materias, f \in FileNames}
    \cup {a \o <<m, l2, f>> :
            a \in Anchors, m \in Materias, l2 \in Level2Folders, f \in FileNames}
    \cup {a \o <<m, l2, l3, f>> :
            a \in Anchors, m \in Materias, l2 \in Level2Folders,
            l3 \in Level3Folders, f \in FileNames}

ExtractMetadata ==
    /\ academic_metadata = None
    /\ academic_metadata' = Some(ExtractAcademicMetadata(file_path))
    /\ UNCHANGED <<file_path, exceptMeta>>

\* a file has been found, its metadata has not been extracted
InitMeta ==
    /\ file_path \in FilePaths
    /\ academic_metadata = None
    /\ split_input = <<>>
    /\ preserve_metadata = TRUE
    /\ add_chunk_metadata = TRUE
    /\ doc_cursor = 0
    /\ chunks = <<>>
    /\ split_pc = "idle"
    /\ IdleLoad

NextMeta == ExtractMetadata

InitSpecMeta == InitMeta /\ InitAdd /\ IdleNorm /\ IdleSearch

SpecMeta == InitSpecMeta /\ [][NextMeta]_vars

---------------------------------------------------------------------------
(* AcademicTextSplitter.split_documents (src/src/text_processing.py)       *)

AsciiLetters ==
    {AsciiLower[x] : x \in 1..Len(AsciiLower)} \cup {AsciiUpper[x] : x \in 1..Len(AsciiUpper)}

\* _contains_math_formulas, lines 172-184: \$.*?\$, \\[a-zA-Z]+,
\* [a-zA-Z]\s*=\s*[0-9] or [0-9]+\s*[+\-*/]\s*[0-9]+ is found in content
ContainsMathFormulas(content) ==
    \/ \E p, q \in 1..Len(content) :
          /\ p < q
          /\ content[p] = "$"
          /\ content[q] = "$"
          /\ \A x \in (p + 1)..(q - 1) : content[x] # LF
    \/ \E p \in 1..Len(content) :
          content[p] = "\\" /\ At(content, p + 1) \in AsciiLetters
    \/ \E p \in 1..Len(content) :
          LET e == p + 1 + Run(content, p + 1, SpaceChars)
          IN  /\ content[p] \in AsciiLetters
              /\ At(content, e) = "="
              /\ At(content, e + 1 + Run(content, e + 1, SpaceChars)) \in DigitSet
    \/ \E p \in 1..Len(content) :
          LET o == p + 1 + Run(content, p + 1, SpaceChars)
          IN  /\ content[p] \in DigitSet
              /\ At(content, o) \in {"+", "-", "*", "/"}
              /\ At(content, o + 1 + Run(content, o + 1, SpaceChars)) \in DigitSet

\* definition_keywords, lines 188-191
DefinitionKeywords ==
    {<<"d", "e", "f", "i", "n", "i", "c", "i", "ó", "n">>, <<"d", "e", "f", "i", "n", "i", "r">>, <<"s", "e", SP, "d", "e", "f", "i", "n", "e">>, <<"e", "s", SP, "a", "q", "u", "e", "l">>, <<"e", "s", SP, "a", "q", "u", "e", "l", "l", "a">>,
     <<"l", "l", "a", "m", "a", "m", "o", "s">>, <<"d", "e", "n", "o", "m", "i", "n", "a", "m", "o", "s">>, <<"e", "n", "t", "e", "n", "d", "e", "m", "o", "s", SP, "p", "o", "r">>}

\* _contains_definitions, lines 186-193
ContainsDefinitions(content) == \E keyword \in DefinitionKeywords : Contains(content, keyword)

\* exercise_keywords, lines 197-200
ExerciseKeywords ==
    {<<"e", "j", "e", "r", "c", "i", "c", "i", "o">>, <<"p", "r", "o", "b", "l", "e", "m", "a">>, <<"c", "a", "l", "c", "u", "l", "a", "r">>, <<"d", "e", "t", "e", "r", "m", "i", "n", "a", "r">>, <<"e", "n", "c", "o", "n", "t", "r", "a", "r">>,
     <<"r", "e", "s", "o", "l", "v", "e", "r">>, <<"d", "e", "m", "o", "s", "t", "r", "a", "r">>, <<"p", "r", "o", "b", "a", "r">>, <<"v", "e", "r", "i", "f", "i", "c", "a", "r">>}

\* _contains_exercises, lines 195-202
ContainsExercises(content) == \E keyword \in ExerciseKeywords : Contains(content, keyword)

\* beginner_keywords, lines 215-218
BeginnerKeywords ==
    {<<"b", "á", "s", "i", "c", "o">>, <<"s", "i", "m", "p", "l", "e">>, <<"e", "l", "e", "m", "e", "n", "t", "a", "l">>, <<"i", "n", "t", "r", "o", "d", "u", "c", "c", "i", "ó", "n">>, <<"c", "o", "n", "c", "e", "p", "t", "o">>,
     <<"d", "e", "f", "i", "n", "i", "c", "i", "ó", "n">>, <<"e", "j", "e", "m", "p", "l", "o">>, <<"c", "a", "s", "o", SP, "s", "i", "m", "p", "l", "e">>}

\* advanced_keywords, lines 220-223
AdvancedKeywords ==
    {<<"a", "v", "a", "n", "z", "a", "d", "o">>, <<"c", "o", "m", "p", "l", "e", "j", "o">>, <<"s", "o", "f", "i", "s", "t", "i", "c", "a", "d", "o">>, <<"t", "e", "o", "r", "e", "m", "a">>, <<"d", "e", "m", "o", "s", "t", "r", "a", "c", "i", "ó", "n">>,
     <<"c", "o", "r", "o", "l", "a", "r", "i", "o">>, <<"l", "e", "m", "a">>, <<"p", "r", "o", "p", "o", "s", "i", "c", "i", "ó", "n">>, <<"a", "n", "á", "l", "i", "s", "i", "s">>, <<"s", "í", "n", "t", "e", "s", "i", "s">>}

\* _estimate_difficulty, lines 204-233: each keyword counts once when it is
\* found in content
EstimateDifficulty(content) ==
    LET beginner_count == Cardinality({kw \in BeginnerKeywords : Contains(content, kw)})
        advanced_count == Cardinality({kw \in AdvancedKeywords : Contains(content, kw)})
    IN  IF advanced_count > beginner_count THEN <<"a", "v", "a", "n", "z", "a", "d", "o">>
        ELSE IF beginner_count > 0 THEN <<"i", "n", "t", "r", "o", "d", "u", "c", "t", "o", "r", "i", "o">>
        ELSE <<"i", "n", "t", "e", "r", "m", "e", "d", "i", "o">>

\* _extract_chunk_metadata, lines 145-170, for a chunk with this content and
\* this metadata at position chunk_index
ExtractChunkMetadata(page_content, chunk_metadata, chunk_index) ==
    LET content_lower == Lower(page_content)
        m0 == [chunk_index |-> IntV(chunk_index),
               chunk_length |-> IntV(Len(page_content)),
               start_index |-> IF "start_index" \in DOMAIN chunk_metadata
                               THEN chunk_metadata["start_index"] ELSE IntV(0)]
        m1 == IF ContainsMathFormulas(content_lower)
              THEN Put(m0, "contains_math", BoolV(TRUE)) ELSE m0
        m2 == IF ContainsDefinitions(content_lower)
              THEN Put(m1, "contains_definitions", BoolV(TRUE)) ELSE m1
        m3 == IF ContainsExercises(content_lower)
              THEN Put(m2, "contains_exercises", BoolV(TRUE)) ELSE m2
    IN  Put(m3, "difficulty_hint", StrV(EstimateDifficulty(content_lower)))

\* the elements of a set of positions, in increasing order
RECURSIVE Ascending(_)
Ascending(ps) == IF ps = {} THEN <<>> ELSE <<Least(ps)>> \o Ascending(ps \ {Least(ps)})

\* self.text_splitter.split_documents([doc]), lines 89-90, for a splitter
\* that cuts the content at the whitespace positions cuts: the non-empty
\* pieces in order, each with a copy of the metadata of doc and its own
\* start_index (add_start_index=True, line 66)
TextSplitterSplit(doc, cuts) ==
    LET content == doc.page_content
        End(a) == IF \E c \in cuts : c >= a
                  THEN Least({c \in cuts : c >= a}) - 1
                  ELSE Len(content)
        starts == Ascending({a \in {1} \cup {c + 1 : c \in cuts} : a <= End(a)})
    IN  [x \in 1..Len(starts) |->
            [page_content |-> SubSeq(content, starts[x], End(starts[x])),
             metadata |-> Put(doc.metadata, "start_index", IntV(starts[x] - 1))]]

\* lines 93-102 on the chunk at 0-based position pos of the chunks of doc
EnrichChunk(doc, chunk, pos) ==
    LET m1 == IF preserve_metadata THEN Update(chunk.metadata, doc.metadata)
              ELSE chunk.metadata
        m2 == IF add_chunk_metadata
              THEN Update(m1, ExtractChunkMetadata(chunk.page_content, m1, pos))
              ELSE m1
    IN  [page_content |-> chunk.page_content, metadata |-> m2]

\* lines 87-104: one turn of the loop over documents, for a document the
\* splitter accepts
SplitDocument ==
    /\ split_pc = "loop"
    /\ doc_cursor < Len(split_input)
    /\ ~split_input[doc_cursor + 1].unsplittable
    /\ LET doc == split_input[doc_cursor + 1]
       IN  \E cuts \in SUBSET {p \in 1..Len(doc.page_content) :
                                  doc.page_content[p] \in SpaceChars} :
             LET doc_chunks == TextSplitterSplit(doc, cuts)
             IN  chunks' = chunks \o
                    [x \in 1..Len(doc_chunks) |->
                        [parent |-> doc_cursor + 1,
                         page_content |-> doc_chunks[x].page_content,
                         metadata |-> EnrichChunk(doc, doc_chunks[x], x - 1).metadata]]
    /\ doc_cursor' = doc_cursor + 1
    /\ UNCHANGED <<split_input, preserve_metadata, add_chunk_metadata, split_pc, exceptSplit>>

\* SplitDocumentFails without the try of line 88: the exception leaves
\* split_documents
SplitDocumentFailsEscapes ==
    /\ split_pc = "loop"
    /\ doc_cursor < Len(split_input)
    /\ split_input[doc_cursor + 1].unsplittable
    /\ split_pc' = "raised"
    /\ UNCHANGED <<split_input, preserve_metadata, add_chunk_metadata, chunks, doc_cursor,
                   exceptSplit>>

\* lines 106-108: the splitter raises on the document, which is skipped
SplitDocumentFails ==
    /\ split_pc = "loop"
    /\ doc_cursor < Len(split_input)
    /\ split_input[doc_cursor + 1].unsplittable
    /\ doc_cursor' = doc_cursor + 1
    /\ UNCHANGED <<split_input, preserve_metadata, add_chunk_metadata, chunks, split_pc,
                   exceptSplit>>

\* lines 110-111: return chunks
SplitReturn ==
    /\ split_pc = "loop"
    /\ doc_cursor = Len(split_input)
    /\ split_pc' = "returned"
    /\ UNCHANGED <<split_input, preserve_metadata, add_chunk_metadata, chunks, doc_cursor,
                   exceptSplit>>

\* the documents split_documents is given: documents whose metadata has no
\* key of a chunk field, documents whose metadata has such keys, a document
\* that repeats a keyword, an empty document and a document the splitter
\* raises on
SplitInputs ==
    {[page_content |-> <<"l", "e", "m", "a", SP, "b", "á", "s", "i", "c", "o">>,
      metadata |-> [materia |-> StrV(<<"m">>), page |-> IntV(1)],
      unsplittable |-> FALSE],
     [page_content |-> <<"x", SP, "=", SP, "1", SP, "p", "r", "o", "b", "l", "e", "m", "a">>,
      metadata |-> [materia |-> StrV(<<"m">>), page |-> IntV(1)],
      unsplittable |-> FALSE],
     [page_content |-> <<"x", SP, "=", SP, "1", SP, "p", "r", "o", "b", "l", "e", "m", "a">>,
      metadata |-> [materia |-> StrV(<<"m">>), chunk_index |-> IntV(7)],
      unsplittable |-> FALSE],
     [page_content |-> <<"s", "e", SP, "d", "e", "f", "i", "n", "e", LF,
                         "T", "e", "o", "r", "e", "m", "a">>,
      metadata |-> [start_index |-> IntV(9), difficulty_hint |-> StrV(<<"d">>),
                    contains_math |-> BoolV(FALSE)],
      unsplittable |-> FALSE],
     [page_content |-> <<"l", "e", "m", "a", SP, "l", "e", "m", "a", SP, "b", "á", "s", "i", "c", "o">>, metadata |-> EmptyDict, unsplittable |-> FALSE],
     [page_content |-> <<>>, metadata |-> EmptyDict, unsplittable |-> FALSE],
     [page_content |-> <<"a">>, metadata |-> EmptyDict, unsplittable |-> TRUE]}

\* split_documents has been called, no document has been handled (line 85)
InitSplit ==
    /\ split_input \in UNION {[1..n -> SplitInputs] : n \in 0..MaxSplitDocs}
    /\ preserve_metadata \in BOOLEAN
    /\ add_chunk_metadata \in BOOLEAN
    /\ doc_cursor = 0
    /\ chunks = <<>>
    /\ split_pc = "loop"
    /\ file_path = <<>>
    /\ academic_metadata = None
    /\ IdleLoad

NextSplit ==
    \/ SplitDocument
    \/ SplitDocumentFails
    \/ SplitReturn

InitSpecSplit == InitSplit /\ InitAdd /\ IdleNorm /\ IdleSearch

SpecSplit == InitSpecSplit /\ [][NextSplit]_vars

---------------------------------------------------------------------------
(* DocumentLoader.load_documents_from_directory (src/src/data_loading.py)  *)
(* and RAGPipeline.load_materials (src/src/rag_pipeline.py)                *)

\* the longest traversal of a directory
MaxFiles == 3

\* PurePath.suffix of a name: from its last dot on, '' when the name has no
\* dot or when its last dot is its first or its last character
Suffix(name) ==
    LET dots == {p \in 1..Len(name) : name[p] = "."}
        last == CHOOSE p \in dots : \A q \in dots : q <= p
    IN  IF dots = {} THEN <<>>
        ELSE IF 1 < last /\ last < Len(name) THEN SubSeq(name, last, Len(name))
        ELSE <<>>

\* str(file_path)
RECURSIVE StrPath(_)
StrPath(parts) ==
    IF Len(parts) = 1 THEN parts[1]
    ELSE parts[1] \o <<"/">> \o StrPath(Tail(parts))

\* line 33: the default of supported_extensions
DefaultExtensions == {<<".", "p", "d", "f">>, <<".", "t", "x", "t">>, <<".", "t", "e", "x">>}

\* lines 34-38: self.loaders
Loaders ==
    [e \in {<<".", "p", "d", "f">>, <<".", "t", "x", "t">>, <<".", "t", "e", "x">>} |->
        IF e = <<".", "p", "d", "f">> THEN "PyPDFLoader" ELSE "TextLoader"]

\* lines 90, 95-96: what the loader of the file's extension returns for it (a
\* Document per page for PyPDFLoader, one Document for TextLoader)
LoaderLoad(file) ==
    IF Loaders[Lower(Suffix(file.path[Len(file.path)]))] = "PyPDFLoader"
    THEN [p \in 1..Len(file.contents) |->
            [page_content |-> file.contents[p],
             metadata |-> [source |-> StrV(StrPath(file.path)), page |-> IntV(p - 1),
                           producer |-> StrV(<<"p", "d", "f", "T", "e", "X">>)]]]
    ELSE <<[page_content |-> file.contents[1],
            metadata |-> [source |-> StrV(StrPath(file.path))]]>>

\* _extract_basic_metadata, lines 177-193
ExtractBasicMetadata(file) ==
    [source |-> StrV(StrPath(file.path)),
     filename |-> StrV(file.path[Len(file.path)]),
     file_type |-> StrV(Lower(Suffix(file.path[Len(file.path)]))),
     file_size |-> IntV(file.size),
     parent_dir |-> StrV(file.path[Len(file.path) - 1])]

\* fields_to_remove, lines 125-138
FieldsToRemove ==
    {"creator", "author", "title", "producer", "creationdate", "moddate", "keywords",
     "subject", "trapped", "ptex.fullbanner", "difficulty_hint"}

\* _clean_metadata, lines 113-175
LoaderCleanMetadata(metadata) ==
    [key \in (DOMAIN metadata) \ FieldsToRemove |-> metadata[key]]

\* the entries a traversal can yield: a PDF of two pages, the same PDF when its
\* loader raises, a text file, the same text file when the metadata extractor
\* raises on it, a file whose size cannot be read, a file of another format
\* and a folder
LoadFiles ==
    {[path |-> <<<<"d", "o", "c", "s">>, <<"P", "r", "o", "b", "_", "y", "_", "e", "s", "t">>, <<"U", "n", "i", "d", "a", "d", "_", "0", "1", "_", "V", "a", "r", "i", "a", "b", "l", "e", "s">>, <<"a", "p", "u", "n", "t", "e", "s">>, <<"t", "e", "o", "r", "i", "a", ".", "p", "d", "f">>>>, is_file |-> TRUE,
      contents |-> <<<<"a", "b">>, <<"c", "d">>>>, size |-> 2, fault |-> "none"],
     [path |-> <<<<"d", "o", "c", "s">>, <<"P", "r", "o", "b", "_", "y", "_", "e", "s", "t">>, <<"U", "n", "i", "d", "a", "d", "_", "0", "1", "_", "V", "a", "r", "i", "a", "b", "l", "e", "s">>, <<"a", "p", "u", "n", "t", "e", "s">>, <<"t", "e", "o", "r", "i", "a", ".", "p", "d", "f">>>>, is_file |-> TRUE,
      contents |-> <<<<"a", "b">>, <<"c", "d">>>>, size |-> 2, fault |-> "load"],
     [path |-> <<<<"d", "o", "c", "s">>, <<"P", "r", "o", "b", "_", "y", "_", "e", "s", "t">>, <<"E", "x", "a", "m", "e", "n", "e", "s">>, <<"f", "i", "n", "a", "l", "_", "2", "0", "2", "2", ".", "t", "x", "t">>>>, is_file |-> TRUE,
      contents |-> <<<<"e", SP, "f">>>>, size |-> 1, fault |-> "none"],
     [path |-> <<<<"d", "o", "c", "s">>, <<"P", "r", "o", "b", "_", "y", "_", "e", "s", "t">>, <<"E", "x", "a", "m", "e", "n", "e", "s">>, <<"f", "i", "n", "a", "l", "_", "2", "0", "2", "2", ".", "t", "x", "t">>>>, is_file |-> TRUE,
      contents |-> <<<<"e", SP, "f">>>>, size |-> 1, fault |-> "extractor"],
     [path |-> <<<<"d", "o", "c", "s">>, <<"P", "r", "o", "b", "_", "y", "_", "e", "s", "t">>, <<"G", "u", "i", "a", "s">>, <<"G", "U", "I", "A", ".", "T", "X", "T">>>>, is_file |-> TRUE,
      contents |-> <<<<"g">>>>, size |-> 1, fault |-> "stat"],
     [path |-> <<<<"d", "o", "c", "s">>, <<"P", "r", "o", "b", "_", "y", "_", "e", "s", "t">>, <<"G", "u", "i", "a", "s">>, <<"e", "x", "a", "m", "e", "n", "_", "i", "n", "t", "e", "r", "m", "e", "d", "i", "o", ".", "d", "o", "c", "x">>>>, is_file |-> TRUE,
      contents |-> <<<<"h">>>>, size |-> 1, fault |-> "none"],
     [path |-> <<<<"d", "o", "c", "s">>, <<"P", "r", "o", "b", "_", "y", "_", "e", "s", "t">>, <<"G", "u", "i", "a", "s">>>>, is_file |-> FALSE,
      contents |-> <<>>, size |-> 0, fault |-> "none"]}

\* extract_academic_metadata on the path of every file of LoadFiles
AcademicMetadataOf ==
    [p \in {file.path : file \in {f \in LoadFiles : f.is_file}} |->
        ExtractAcademicMetadata(p)]

\* lines 89-92, 95-96, 101, 105: whether load_single_document raises for the
\* file (no loader for its extension, the loader raises, stat() raises, the
\* metadata extractor raises)
LoadSingleDocumentRaises(file) ==
    \/ Lower(Suffix(file.path[Len(file.path)])) \notin DOMAIN Loaders
    \/ file.fault = "load"
    \/ file.fault = "stat"
    \/ metadata_extractor /\ file.fault = "extractor"

\* load_single_document, lines 74-111, when it does not raise
LoadSingleDocument(file) ==
    LET docs == LoaderLoad(file)
        custom_metadata == IF metadata_extractor THEN AcademicMetadataOf[file.path]
                           ELSE EmptyDict
    IN  [x \in 1..Len(docs) |->
            [page_content |-> docs[x].page_content,
             metadata |-> LoaderCleanMetadata(
                 Update(Update(docs[x].metadata, ExtractBasicMetadata(file)),
                        custom_metadata))]]

\* line 63: the test an entry of the traversal has to pass
IsSupportedFile(file) ==
    file.is_file /\ Lower(Suffix(file.path[Len(file.path)])) \in supported_extensions

\* lines 58-60: the directory does not exist
LoadDirectoryMissing ==
    /\ load_pc = "loop"
    /\ ~directory_exists
    /\ load_pc' = "returned"
    /\ UNCHANGED <<directory_exists, directory, supported_extensions, metadata_extractor,
                   file_cursor, loaded, stats, exceptLoad>>

\* lines 62-63: an entry that is no file or whose extension is not supported
SkipEntry ==
    /\ load_pc = "loop"
    /\ directory_exists
    /\ file_cursor < Len(directory)
    /\ ~IsSupportedFile(directory[file_cursor + 1])
    /\ file_cursor' = file_cursor + 1
    /\ UNCHANGED <<directory_exists, directory, supported_extensions, metadata_extractor,
                   loaded, load_pc, stats, exceptLoad>>

\* lines 64-67: the file is loaded
LoadFile ==
    /\ load_pc = "loop"
    /\ directory_exists
    /\ file_cursor < Len(directory)
    /\ IsSupportedFile(directory[file_cursor + 1])
    /\ ~LoadSingleDocumentRaises(directory[file_cursor + 1])
    /\ loaded' = loaded \o LoadSingleDocument(directory[file_cursor + 1])
    /\ file_cursor' = file_cursor + 1
    /\ UNCHANGED <<directory_exists, directory, supported_extensions, metadata_extractor,
                   load_pc, stats, exceptLoad>>

\* LoadFileFails without the try of line 64: the exception leaves the loader
LoadFileFailsEscapes ==
    /\ load_pc = "loop"
    /\ directory_exists
    /\ file_cursor < Len(directory)
    /\ IsSupportedFile(directory[file_cursor + 1])
    /\ LoadSingleDocumentRaises(directory[file_cursor + 1])
    /\ load_pc' = "raised"
    /\ UNCHANGED <<directory_exists, directory, supported_extensions, metadata_extractor,
                   file_cursor, loaded, stats, exceptLoad>>

\* lines 64-69: load_single_document raises, the error is logged
LoadFileFails ==
    /\ load_pc = "loop"
    /\ directory_exists
    /\ file_cursor < Len(directory)
    /\ IsSupportedFile(directory[file_cursor + 1])
    /\ LoadSingleDocumentRaises(directory[file_cursor + 1])
    /\ file_cursor' = file_cursor + 1
    /\ UNCHANGED <<directory_exists, directory, supported_extensions, metadata_extractor,
                   loaded, load_pc, stats, exceptLoad>>

\* lines 71-72: return documents
LoadReturn ==
    /\ load_pc = "loop"
    /\ directory_exists
    /\ file_cursor = Len(directory)
    /\ load_pc' = "returned"
    /\ UNCHANGED <<directory_exists, directory, supported_extensions, metadata_extractor,
                   file_cursor, loaded, stats, exceptLoad>>

\* --- RAGPipeline.load_materials: the loaded documents are split, the ---
\* --- chunks are added to the store and the statistics are returned   ---

\* batch_size of add_documents when load_materials calls it
DefaultBatchSize == 100

\* rag_pipeline.py lines 116-118: no document was loaded
LoadMaterialsNoDocuments ==
    /\ load_pc = "returned"
    /\ loaded = <<>>
    /\ stats' = Some([status |-> StrV(<<"e", "r", "r", "o", "r">>),
                      message |-> StrV(<<"N", "o", SP, "d", "o", "c", "u", "m", "e", "n", "t", "s", SP, "f", "o", "u", "n", "d">>)])
    /\ load_pc' = "reported"
    /\ UNCHANGED <<directory_exists, directory, supported_extensions, metadata_extractor,
                   file_cursor, loaded, exceptLoad>>

\* rag_pipeline.py line 121, text_processing.py line 123: process_documents
\* hands the loaded documents to split_documents (the text splitter raises on
\* the documents at the positions of failed)
LoadMaterialsProcess ==
    /\ load_pc = "returned"
    /\ loaded # <<>>
    /\ \E failed \in SUBSET (1..Len(loaded)) :
          split_input' = [x \in 1..Len(loaded) |->
                            [page_content |-> loaded[x].page_content,
                             metadata |-> loaded[x].metadata,
                             unsplittable |-> x \in failed]]
    /\ preserve_metadata' = TRUE
    /\ add_chunk_metadata' = TRUE
    /\ doc_cursor' = 0
    /\ chunks' = <<>>
    /\ split_pc' = "loop"
    /\ load_pc' = "processing"
    /\ UNCHANGED <<directory_exists, directory, supported_extensions, metadata_extractor,
                   file_cursor, loaded, stats, addVars, repeatVars, normVars, searchVars,
                   retrVars, metaVars>>

\* rag_pipeline.py lines 123-133: the chunks become Documents and are handed
\* to add_documents (the store rejects the chunks at the positions of bad)
LoadMaterialsAdd ==
    /\ load_pc = "processing"
    /\ split_pc = "returned"
    /\ \E bad \in SUBSET (1..Len(chunks)) :
          AddDocuments([x \in 1..Len(chunks) |->
                           [page_content |-> chunks[x].page_content,
                            metadata |-> chunks[x].metadata]],
                       DefaultBatchSize, bad)

\* get_collection_info, vector_store.py lines 490-520, as far as the counts go
GetCollectionInfo ==
    [t |-> "dict",
     d |-> [document_count |-> IntV(Len(store)), embedding_count |-> IntV(Len(store))]]

\* rag_pipeline.py lines 135-149: the statistics, or the error status when
\* add_documents raised
LoadMaterialsReport ==
    /\ load_pc = "processing"
    /\ pc \in {"returned", "raised"}
    /\ stats' = Some(IF pc = "raised"
                     THEN [status |-> StrV(<<"e", "r", "r", "o", "r">>), message |-> StrV(ErrorText.s)]
                     ELSE [status |-> StrV(<<"s", "u", "c", "c", "e", "s", "s">>),
                           documents_loaded |-> IntV(Len(loaded)),
                           chunks_created |-> IntV(Len(chunks)),
                           documents_added |-> IntV(Len(all_ids)),
                           collection_info |-> GetCollectionInfo])
    /\ load_pc' = "reported"
    /\ UNCHANGED <<directory_exists, directory, supported_extensions, metadata_extractor,
                   file_cursor, loaded, exceptLoad>>

\* the traversals: entries of different paths
Traversals ==
    {d \in UNION {[1..n -> LoadFiles] : n \in 0..MaxFiles} :
        \A x, y \in 1..Len(d) : x # y => d[x].path # d[y].path}

\* load_documents_from_directory has been called on a directory
InitLoad ==
    /\ directory_exists \in BOOLEAN
    /\ directory \in IF directory_exists THEN Traversals ELSE {<<>>}
    /\ supported_extensions \in {DefaultExtensions, DefaultExtensions \cup {<<".", "d", "o", "c", "x">>}}
    /\ metadata_extractor \in BOOLEAN
    /\ file_cursor = 0
    /\ loaded = <<>>
    /\ load_pc = "loop"
    /\ stats = None

InitSpecLoad ==
    /\ InitLoad
    /\ InitAdd
    /\ IdleNorm
    /\ IdleSearch
    /\ file_path = <<>>
    /\ academic_metadata = None
    /\ split_input = <<>>
    /\ preserve_metadata = TRUE
    /\ add_chunk_metadata = TRUE
    /\ doc_cursor = 0
    /\ chunks = <<>>
    /\ split_pc = "idle"

NextLoader ==
    \/ LoadDirectoryMissing
    \/ SkipEntry
    \/ LoadFile
    \/ LoadFileFails
    \/ LoadReturn

SpecLoader == InitSpecLoad /\ [][NextLoader]_vars

NextLoad ==
    \/ NextLoader
    \/ LoadMaterialsNoDocuments
    \/ LoadMaterialsProcess
    \/ SplitDocument
    \/ SplitDocumentFails
    \/ SplitReturn
    \/ LoadMaterialsAdd
    \/ BatchInserted
    \/ BatchFailed
    \/ RetryInserted
    \/ RetryFailed
    \/ AddReturn
    \/ LoadMaterialsReport

SpecLoad == InitSpecLoad /\ [][NextLoad]_vars

---------------------------------------------------------------------------
(* Claims about VectorStore.add_documents                                  *)

\* the store entries whose ids add_documents returned
ReturnedEntries == {x \in 1..Len(store) : \E y \in 1..Len(all_ids) : all_ids[y] = store[x].id}

ErrorProvenanceKeys == {"_individual_error", "_document_position", "_failed_processing"}

\* C1: with batch_size >= 1 and a fixed set F of chunks the store rejects,
\* add_documents raises nothing and returns exactly N - |F| ids, one for each
\* chunk outside F, and every chunk of F carries the error-provenance fields
\* _individual_error, _document_position and _failed_processing.
C1_BatchIsolation ==
    (pc \in {"returned", "raised"} /\ batch_size >= 1) =>
        /\ pc = "returned"
        /\ Len(all_ids) = N - Cardinality(failing)
        /\ \A x, y \in 1..Len(all_ids) : all_ids[x] = all_ids[y] => x = y
        /\ {store[x].pos : x \in ReturnedEntries} = (1..N) \ failing
        /\ Cardinality(ReturnedEntries) = Len(all_ids)
        /\ \A p \in failing : ErrorProvenanceKeys \subseteq DOMAIN documents[p].metadata

\* C1 witness: three chunks in batches of two, the first one rejected: the second
\* shares its batch, the third lies in a later batch, and both ids are returned
C1_Witness ==
    /\ pc = "returned"
    /\ N = 3
    /\ batch_size = 2
    /\ failing = {1}
    /\ Len(all_ids) = 2
    /\ "_individual_error" \in DOMAIN documents[1].metadata

\* C16: every step of add_documents leaves the chunks the store already holds
\* where they are, unchanged: the store only grows, whether the step inserts
\* a batch, inserts a single chunk, or records a failed batch or a failed chunk.
C16_StoreOnlyGrows ==
    [][/\ Len(store') >= Len(store)
       /\ \A x \in 1..Len(store) : store'[x] = store[x]]_vars

\* batches of one chunk, the second chunk rejected: the first chunk was stored
\* before the failure, the third one after it
C16_Witness ==
    /\ pc = "returned"
    /\ N = 3
    /\ batch_size = 1
    /\ failing = {2}
    /\ Len(store) = 2
    /\ store[1].pos = 1
    /\ store[2].pos = 3
    /\ "_individual_error" \in DOMAIN documents[2].metadata

\* C22: once add_documents has sanitized the chunks, every chunk whose content
\* changed its length carries _cleaning_info with the length before and the
\* length after, whatever its metadata and its original content were.
C22_CleaningInfoRecorded ==
    pc # "idle" =>
        \A p \in 1..N :
            Len(documents[p].page_content) # Len(given[p].page_content) =>
                /\ "_cleaning_info" \in DOMAIN documents[p].metadata
                /\ documents[p].metadata["_cleaning_info"] =
                       CleaningInfo(given[p].page_content, documents[p].page_content)

\* the provenance fields add_documents can write
ProvenanceKeys ==
    {"_cleaning_info", "_cleaning_error", "_cleaning_failed", "_batch_error",
     "_batch_number", "_individual_error", "_document_position", "_failed_processing"}

\* the keys of a metadata mapping that are no provenance fields
DomainKeys(metadata) == (DOMAIN metadata) \ ProvenanceKeys

\* C23 as stated: add_documents adds provenance fields to a chunk's metadata
\* and leaves every other key with exactly the value it had before the call.
C23_OnlyProvenanceChanged ==
    pc # "idle" =>
        \A p \in 1..N :
            /\ DomainKeys(documents[p].metadata) = DomainKeys(given[p].metadata)
            /\ \A k \in DomainKeys(given[p].metadata) :
                  documents[p].metadata[k] = given[p].metadata[k]

\* C23 amended: add_documents adds provenance fields, removes no key and adds
\* no other key; a value that is no string is kept, a string value is replaced
\* by its sanitized form (control characters removed, whitespace collapsed and
\* stripped, cut at the ceiling); the store holds these same values.
C23_OtherKeysSanitizedOnly ==
    pc # "idle" =>
        /\ \A p \in 1..N :
              /\ DomainKeys(documents[p].metadata) = DomainKeys(given[p].metadata)
              /\ \A k \in DomainKeys(given[p].metadata) :
                    documents[p].metadata[k] = CleanMetaValue(given[p].metadata[k])
        /\ \A x \in 1..Len(store) :
              /\ DomainKeys(store[x].metadata) = DomainKeys(given[store[x].pos].metadata)
              /\ \A k \in DomainKeys(store[x].metadata) :
                    store[x].metadata[k] = CleanMetaValue(given[store[x].pos].metadata[k])

\* a chunk whose materia was sanitized and that failed in its batch and on its
\* own: it has the provenance fields and its sanitized materia
C23_Witness ==
    /\ pc = "returned"
    /\ N >= 1
    /\ "materia" \in DOMAIN given[1].metadata
    /\ given[1].metadata["materia"] = StrV(<<"m", SP, SP, "x">>)
    /\ documents[1].metadata["materia"] = StrV(<<"m", SP, "x">>)
    /\ {"_batch_error", "_individual_error"} \subseteq DOMAIN documents[1].metadata

\* C26: when add_documents returns, also from a call with chunk objects an
\* earlier call was given, its statistics are consistent: failed is attempted
\* minus succeeded, which is the number of chunks whose insertion failed in
\* this call, the count of individual failures is that number too, and a
\* chunk carries _individual_error exactly when its insertion failed in this
\* call.
C26_StatisticsConsistent ==
    (pc = "returned" /\ N >= 1) =>
        /\ LogProcessingStats.failed_docs =
              LogProcessingStats.total_docs - LogProcessingStats.successful_docs
        /\ LogProcessingStats.failed_docs = Cardinality(failing)
        /\ LogProcessingStats.individual_errors = Cardinality(failing)
        /\ \A p \in 1..N : HasTruthy(documents[p], "_individual_error") <=> p \in failing

\* the positions of the batch the chunk at position p belongs to
BatchOf(p) == {q \in 1..N : (q - 1) \div batch_size = (p - 1) \div batch_size}

\* C27 as stated: the metadata the store holds for an inserted chunk has none
\* of _batch_error, _batch_number, _individual_error, _failed_processing.
C27_StoredWithoutErrorFields ==
    \A x \in 1..Len(store) :
        (DOMAIN store[x].metadata) \cap
            {"_batch_error", "_batch_number", "_individual_error", "_failed_processing"} = {}

\* C27 amended: for chunks that carry no provenance field when add_documents
\* is called, an inserted chunk is stored without _individual_error,
\* _document_position and _failed_processing; it is stored with _batch_error
\* and the number of its batch in _batch_number exactly when its batch raised
\* and it was inserted on the individual retry.
C27_StoredWithBatchErrorOnRetry ==
    pc # "idle" =>
        \A x \in 1..Len(store) :
            LET p == store[x].pos
                m == store[x].metadata
            IN  /\ (DOMAIN m) \cap
                      {"_individual_error", "_document_position", "_failed_processing"} = {}
                /\ p \notin failing
                /\ IF StoreRejects(BatchOf(p))
                   THEN /\ {"_batch_error", "_batch_number"} \subseteq DOMAIN m
                        /\ m["_batch_error"] = ErrorText
                        /\ m["_batch_number"] = IntV(((p - 1) \div batch_size) + 1)
                   ELSE (DOMAIN m) \cap {"_batch_error", "_batch_number"} = {}

\* a call has returned the id of a chunk that was inserted on the individual
\* retry of its batch, after a chunk of that batch had failed on its own
C27_Witness ==
    /\ pc = "returned"
    /\ \E x \in 1..Len(store) :
          /\ store[x].id \in {all_ids[y] : y \in 1..Len(all_ids)}
          /\ store[x].pos = 2
          /\ 1 \in failing
          /\ "_batch_number" \in DOMAIN store[x].metadata
          /\ store[x].metadata["_batch_number"] = IntV(1)

\* how often the chunk at position p has been handed to the store
Submissions(p) ==
    Cardinality({x \in 1..Len(submitted) : \E y \in 1..Len(submitted[x]) : submitted[x][y] = p})

\* the submissions of a call in input order, from the batch at offset start
\* on: each batch, followed by its chunks one by one when the store rejects it
RECURSIVE InOrder(_)
InOrder(start) ==
    IF start >= N THEN <<>>
    ELSE LET b == [x \in 1..Min(batch_size, N - start) |-> start + x]
         IN  <<b>> \o (IF StoreRejects({b[x] : x \in 1..Len(b)})
                       THEN [x \in 1..Len(b) |-> <<b[x]>>]
                       ELSE <<>>)
                   \o InOrder(start + batch_size)

\* what C28 says of every state of a call with batch_size >= 1
C28_SequentialAtMostTwice ==
    pc \in {"batch", "retry", "returned"} =>
        /\ Len(submitted) <= Len(InOrder(0))
        /\ submitted = SubSeq(InOrder(0), 1, Len(submitted))
        /\ pc = "returned" => submitted = InOrder(0)
        /\ \A p \in 1..N :
              /\ Submissions(p) <= 2
              /\ Submissions(p) = 2 => StoreRejects(BatchOf(p))
              /\ (pc = "returned" /\ ~StoreRejects(BatchOf(p))) => Submissions(p) = 1
        /\ \A x, y \in 1..Len(store) : store[x].pos = store[y].pos => x = y

\* C28: a call of add_documents with batch_size >= 1 terminates; it hands the
\* batches to the store in input order, each failed batch followed by its
\* chunks one by one in input order; a chunk is submitted at most twice, the
\* second time only when its batch raised, and exactly once when its batch
\* succeeded; no chunk is stored twice by the call.
C28_TerminatesSequentially ==
    /\ []C28_SequentialAtMostTwice
    /\ (pc \in {"batch", "retry"}) ~> (pc = "returned")

\* a call over two batches has returned: the first batch raised and its
\* chunks were submitted again, the second was inserted as a whole
C28_Witness ==
    /\ pc = "returned"
    /\ N = 3
    /\ submitted = << <<1, 2>>, <<1>>, <<2>>, <<3>> >>
    /\ Len(store) = 2

\* C29: sanitizing a chunk that has been sanitized leaves its content as it
\* is, for every content, truncated ones included.
C29_SanitationIdempotent ==
    pc = "recleaned" => documents[1].page_content = given[1].page_content

---------------------------------------------------------------------------
(* Claims about normalize_text and the materia labels                      *)

\* C4: the materia stored at ingestion and the materia put in the retrieval
\* filter pass through the same normalization: for one subject spelling, what
\* the loader stores equals what each filter-building path produces.
C4_SameNormalization ==
    (materiaStored # None /\ materiaFilter # None) => materiaFilter = materiaStored

\* C5: normalize_text is idempotent: normalizing its result changes nothing.
C5_Idempotent ==
    (token # None /\ again # None) => again = token

\* C5 witness: a spelling with upper case, a diacritic and a separator has been
\* normalized twice, to a non-empty token
C5_Witness ==
    /\ text = <<"A_acute", "_", "N">>
    /\ token = Some(<<"a", "n">>)
    /\ again # None

---------------------------------------------------------------------------
(* Claims about the searches and the Retriever                             *)

\* whether a chunk with metadata md has, for every pair of the filter d, that
\* key with that value
AllPairsHold(d, md) ==
    \A x \in 1..Len(d) : d[x][1] \in DOMAIN md /\ md[d[x][1]] = d[x][2]

EffectiveK == IF op.k = None \/ op.k = Some(0) THEN self_k ELSE op.k[1]

\* C7: similarity_search and similarity_search_with_score search unfiltered
\* when the filter is absent or empty, hand the store one equality condition
\* with no conjunction wrapper for a one-pair filter, and for n > 1 pairs hand
\* it a conjunction of exactly n equality conditions, the x-th on the key and
\* value of the x-th pair; a search that succeeds returns the k best chunks
\* among those that satisfy every pair.
C7_FilterConversion ==
    op.name \in {"similarity_search", "similarity_search_with_score"} =>
        /\ Len(calls) = 1
        /\ calls[1].fn = op.name
        /\ calls[1].k = op.k
        /\ LET d == IF op.filter = None THEN <<>> ELSE op.filter[1]
               w == calls[1].filter
           IN  /\ Len(d) = 0 => w = None
               /\ Len(d) = 1 =>
                    /\ Len(w) = 1
                    /\ w[1][1] = d[1][1]
                    /\ w[1][1] # "$and"
                    /\ w[1][2] = [t |-> "eq", v |-> d[1][2]]
               /\ Len(d) > 1 =>
                    /\ Len(w) = 1
                    /\ w[1][1] = "$and"
                    /\ Len(w[1][2].items) = Len(d)
                    /\ \A x \in 1..Len(d) :
                         w[1][2].items[x] = << <<d[x][1], [t |-> "eq", v |-> d[x][2]]>> >>
               /\ ~raised =>
                    result = TopK({x \in 1..Len(store) : AllPairsHold(d, store[x].metadata)},
                                  op.k)

\* C7 witness: a scored search with a three-pair filter has found a chunk
C7_Witness ==
    /\ op.name = "similarity_search_with_score"
    /\ op.filter # None
    /\ Len(op.filter[1]) = 3
    /\ ~raised
    /\ result = <<1>>

\* C8: for one filter mapping, search_by_metadata selects chunks by the same
\* condition as similarity_search, the conjunction of one equality per pair:
\* it raises exactly when similarity_search with that filter raises, and
\* otherwise returns the first chunks that satisfy every pair.
C8_SameFilterLanguage ==
    op.name = "search_by_metadata" =>
        /\ raised = VSSimilaritySearch(op.k, op.filter).raised
        /\ ~raised =>
             result = FirstK({x \in 1..Len(store) :
                                 AllPairsHold(op.filter[1], store[x].metadata)}, op.k)

\* C9: retrieve makes exactly one backend call: similarity_search_with_score
\* when include_scores is set, and then no returned chunk scores below
\* score_threshold; otherwise the native retriever when the filter is absent
\* or empty and the effective k is the default k; otherwise similarity_search
\* with the effective k and the given filter.
C9_RouteSelection ==
    op.name = "retrieve" =>
        /\ Len(calls) = 1
        /\ IF op.include_scores
           THEN /\ calls[1].fn = "similarity_search_with_score"
                /\ \A x \in 1..Len(result) : ScoreOf(result[x]) >= self_score_threshold
           ELSE IF ~Truthy(op.filter) /\ EffectiveK = self_k
           THEN calls[1].fn = "native_retriever"
           ELSE /\ calls[1].fn = "similarity_search"
                /\ calls[1].k = EffectiveK
                /\ calls = VSSimilaritySearch(EffectiveK, op.filter).calls

\* C10: after construction and after every set_k, set_score_threshold and
\* retrieve, the native retriever is bound to the current k and
\* score_threshold, and retrieve changes none of the three.
C10_NativeInSync ==
    /\ [](/\ native_retriever.k = self_k
          /\ native_retriever.score_threshold = self_score_threshold)
    /\ [][op'.name = "retrieve" => UNCHANGED retrVars]_vars

\* C10 witness: set_k has just set k to 3 under a threshold of 2, and the
\* native retriever is bound to both
C10_Witness ==
    /\ op.name = "set_k"
    /\ op.k = Some(3)
    /\ self_k = 3
    /\ self_score_threshold = 2
    /\ native_retriever.k = 3
    /\ native_retriever.score_threshold = 2

---------------------------------------------------------------------------
(* Claims about DocumentLoader.extract_academic_metadata                   *)

ExamFieldNames == {"año", "cuatrimestre", "tipo_examen", "tema"}
UnitFieldNames == {"unidad_numero", "unidad_tema"}

\* C2: the metadata extract_academic_metadata returns never holds an exam
\* field together with a unit field: when tipo_documento is examenes,
\* parciales or finales it holds no unit field, and otherwise no exam field.
C2_ExamUnitExclusive ==
    academic_metadata # None =>
        LET md == academic_metadata[1]
        IN  /\ ExamFieldNames \cap DOMAIN md = {} \/ UnitFieldNames \cap DOMAIN md = {}
            /\ md["tipo_documento"].s \in ExamKinds => UnitFieldNames \cap DOMAIN md = {}
            /\ md["tipo_documento"].s \notin ExamKinds => ExamFieldNames \cap DOMAIN md = {}

\* C2 witness: an exam that lies in a unit folder, with a leading number in its
\* name: the exam fields are there and the unit fields of the folder are not
C2_Witness ==
    /\ file_path = <<<<"d", "o", "c", "s">>, <<"P", "r", "o", "b", "_", "y", "_", "e", "s", "t">>, <<"U", "n", "i", "d", "a", "d", "_", "0", "1", "_", "V", "a", "r", "i", "a", "b", "l", "e", "s">>, <<"E", "x", "a", "m", "e", "n", "e", "s">>,
                     <<"2", "0", "2", "3", "_", "Q", "1", "_", "2", "P", "_", "A", ".", "p", "d", "f">>>>
    /\ academic_metadata # None
    /\ ExamFieldNames \subseteq DOMAIN academic_metadata[1]
    /\ academic_metadata[1]["tipo_documento"].s = <<"e", "x", "a", "m", "e", "n", "e", "s">>

---------------------------------------------------------------------------
(* Claims about AcademicTextSplitter.split_documents                       *)

\* C3: with metadata preservation on, every key of the metadata of the parent
\* Document is in the metadata of each of its chunks with the same value,
\* whatever the keys are named.
C3_ParentMetadataKept ==
    preserve_metadata =>
        \A x \in 1..Len(chunks) :
            LET parent == split_input[chunks[x].parent].metadata
            IN  \A key \in DOMAIN parent :
                    /\ key \in DOMAIN chunks[x].metadata
                    /\ chunks[x].metadata[key] = parent[key]

---------------------------------------------------------------------------
(* Claims about failures                                                   *)

\* whether a call the operation made to the store raised there
StoreSearchRaised ==
    \E x \in 1..Len(calls) : calls[x].filter # None /\ ~WhereValid(calls[x].filter)

\* C11: when the store search raises, similarity_search,
\* similarity_search_with_score and retrieve raise to their caller after one
\* attempt: the store was called exactly once and no result is returned.
C11_FailurePropagates ==
    op.name \in {"similarity_search", "similarity_search_with_score", "retrieve"} =>
        /\ StoreSearchRaised => (raised /\ Len(calls) = 1 /\ result = <<>>)
        /\ raised => (StoreSearchRaised /\ result = <<>>)

\* C11 witness: retrieve was given a filter the store rejects, and raised
\* after its one call to similarity_search
C11_Witness ==
    /\ op.name = "retrieve"
    /\ op.filter = Some(<< <<"materia", NoneV>> >>)
    /\ ~op.include_scores
    /\ raised
    /\ Len(calls) = 1
    /\ calls[1].fn = "similarity_search"

\* C12: a search failure inside search_materials reaches the caller: when the
\* store search under retrieve raised, the caller gets the exception, or at
\* least something other than the empty list of a search that found nothing.
C12_SearchFailureReported ==
    (op.name = "search_materials" /\ StoreSearchRaised) =>
        (raised \/ result # <<>>)

---------------------------------------------------------------------------
(* Claims about the loader and RAGPipeline.load_materials                  *)

\* the entries of the traversal that were passed over
SkippedEntries == {x \in 1..Len(directory) : ~IsSupportedFile(directory[x])}

\* the supported files of the traversal whose loading raised
FailedFiles ==
    {x \in 1..Len(directory) :
        IsSupportedFile(directory[x]) /\ LoadSingleDocumentRaises(directory[x])}

\* the documents the splitter raised on
FailedDocuments == {x \in 1..Len(split_input) : split_input[x].unsplittable}

\* what "the number of items skipped" can mean after a run of load_materials
SkippedReadings ==
    {Cardinality(SkippedEntries), Cardinality(SkippedEntries) + Cardinality(FailedFiles)}

\* what "the number of items failed" can mean after a run of load_materials:
\* files, documents, chunks, or all of them
FailedReadings ==
    {Cardinality(FailedFiles), Cardinality(FailedDocuments), Len(chunks) - Len(all_ids),
     Cardinality(FailedFiles) + Cardinality(FailedDocuments) + Len(chunks) - Len(all_ids)}

\* C13: whenever at least one file was loaded, the result of load_materials
\* has the success status and carries, under three different keys, the number
\* of items loaded, the number of items skipped and the number of items failed.
C13_PartialSuccessCounts ==
    (load_pc = "reported" /\ loaded # <<>>) =>
        LET r == stats[1]
        IN  /\ r.status = StrV(<<"s", "u", "c", "c", "e", "s", "s">>)
            /\ \E kl, ks, kf \in DOMAIN r :
                  /\ kl # ks /\ ks # kf /\ kl # kf
                  /\ r[kl] = IntV(Len(loaded))
                  /\ \E n \in SkippedReadings : r[ks] = IntV(n)
                  /\ \E n \in FailedReadings : r[kf] = IntV(n)

\* the documents of the files of a list, file after file
RECURSIVE DocumentsOf(_)
DocumentsOf(files) ==
    IF files = <<>> THEN <<>>
    ELSE LoadSingleDocument(Head(files)) \o DocumentsOf(Tail(files))

\* the supported files of the traversal whose loading does not raise, in
\* traversal order
RemainingFiles ==
    LET Remains(file) == IsSupportedFile(file) /\ ~LoadSingleDocumentRaises(file)
    IN  SelectSeq(directory, Remains)

\* C14: load_documents_from_directory never raises, and the list it returns
\* holds the documents of exactly the supported files whose loading and
\* metadata extraction did not raise, in traversal order; an unsupported file
\* and a failing file contribute nothing, wherever they are in the traversal.
C14_FailingFileSkipped ==
    /\ load_pc # "raised"
    /\ load_pc = "returned" =>
          /\ loaded = DocumentsOf(RemainingFiles)
          /\ \A x \in SkippedEntries \cup FailedFiles, y \in 1..Len(loaded) :
                loaded[y].metadata.source # StrV(StrPath(directory[x].path))

\* a traversal that starts with a PDF whose loader raises, goes on with a file
\* of an unsupported format and ends with a file that loads
C14_Witness ==
    /\ load_pc = "returned"
    /\ Len(directory) = 3
    /\ 1 \in FailedFiles
    /\ directory[2].is_file
    /\ 2 \in SkippedEntries
    /\ Len(loaded) = 1
    /\ loaded[1].metadata.source = StrV(StrPath(directory[3].path))

---------------------------------------------------------------------------
(* Claims about failures inside split_documents                            *)

\* the characters of s that are no whitespace
NonSpace(s) ==
    LET Inked(c) == c \notin SpaceChars
    IN  SelectSeq(s, Inked)

\* the texts of the chunks of the document at position x, one after another
RECURSIVE ChunkTextOf(_, _)
ChunkTextOf(x, cs) ==
    IF cs = <<>> THEN <<>>
    ELSE (IF Head(cs).parent = x THEN Head(cs).page_content ELSE <<>>)
             \o ChunkTextOf(x, Tail(cs))

\* C15: split_documents lets no exception escape; a document the splitter
\* raises on has no chunk in the output; the chunks of the other documents
\* are in the output in the order of their documents and cover the text of
\* their document.
C15_FailedDocumentSkipped ==
    /\ split_pc # "raised"
    /\ \A c \in 1..Len(chunks) : ~split_input[chunks[c].parent].unsplittable
    /\ \A c, d \in 1..Len(chunks) : c < d => chunks[c].parent <= chunks[d].parent
    /\ \A x \in 1..doc_cursor :
          ~split_input[x].unsplittable =>
              NonSpace(ChunkTextOf(x, chunks)) = NonSpace(split_input[x].page_content)

\* the first of two documents failed, the second one was split after it
C15_Witness ==
    /\ split_pc = "returned"
    /\ Len(split_input) = 2
    /\ split_input[1].unsplittable
    /\ ~split_input[2].unsplittable
    /\ Len(chunks) >= 2
    /\ \A c \in 1..Len(chunks) : chunks[c].parent = 2

---------------------------------------------------------------------------
(* Claims about the fields extract_academic_metadata infers                *)

\* whether parts is docs/<M>/Unidad_<NN>_<T>/<tipo>/<file>
IsUnitTipoPath(parts) ==
    /\ Len(parts) = 5
    /\ parts[1] = <<"d", "o", "c", "s">>
    /\ StartsAt(parts[3], 1, <<"U", "n", "i", "d", "a", "d", "_">>)
    /\ Len(parts[3]) >= 11
    /\ parts[3][8] \in DigitSet
    /\ parts[3][9] \in DigitSet
    /\ parts[3][10] = "_"

IsExamFileName(name) ==
    /\ Len(name) >= 14
    /\ name[1] = "2" /\ name[2] = "0"
    /\ name[3] \in DigitSet /\ name[4] \in DigitSet
    /\ name[5] = "_" /\ name[6] = "Q" /\ name[7] \in OneTwo
    /\ name[8] = "_" /\ name[9] \in OneTwo /\ name[10] = "P"
    /\ name[11] = "_" /\ name[12] \in {"A", "B", "C", "D"}
    /\ name[13] = "."

\* whether the file of parts lies in an examenes folder of one of the two
\* layouts: <materia>/<examenes>/<file> or <materia>/<unit>/<examenes>/<file>
InExamenesFolder(parts) ==
    LET path_after_docs == PathAfterDocs(parts)
    IN  \/ /\ Len(path_after_docs) = 3
           /\ Lower(path_after_docs[2]) = <<"e", "x", "a", "m", "e", "n", "e", "s">>
        \/ /\ Len(path_after_docs) = 4
           /\ IsUnitFolder(path_after_docs[2])
           /\ Lower(path_after_docs[3]) = <<"e", "x", "a", "m", "e", "n", "e", "s">>

\* C18: for a file <YYYY>_Q<c>_<n>P_<L>.<ext> in an examenes folder the
\* metadata has año = YYYY, cuatrimestre = c, tipo_examen = primer_parcial for
\* n = 1 and segundo_parcial for n = 2, tema = L, and neither unidad_numero nor
\* unidad_tema.
C18_ExamFileNameFields ==
    (/\ academic_metadata # None
     /\ IsExamFileName(file_path[Len(file_path)])
     /\ InExamenesFolder(file_path)) =>
        LET m == academic_metadata[1]
            name == file_path[Len(file_path)]
        IN  /\ {"año", "cuatrimestre", "tipo_examen", "tema"} \subseteq DOMAIN m
            /\ m["año"] = IntV(ParseInt(SubSeq(name, 1, 4)))
            /\ m["cuatrimestre"] = IntV(DigitValue(name[7]))
            /\ m["tipo_examen"] = StrV(IF name[9] = "1" THEN <<"p", "r", "i", "m", "e", "r", "_", "p", "a", "r", "c", "i", "a", "l">>
                                       ELSE <<"s", "e", "g", "u", "n", "d", "o", "_", "p", "a", "r", "c", "i", "a", "l">>)
            /\ m["tema"] = StrV(<<name[12]>>)
            /\ "unidad_numero" \notin DOMAIN m
            /\ "unidad_tema" \notin DOMAIN m

\* docs/Prob_y_est/Examenes/2023_Q1_2P_A.pdf, whose leading 2023 is a unit
\* number for the file-name patterns
C18_Witness ==
    /\ academic_metadata # None
    /\ file_path = <<<<"d", "o", "c", "s">>, <<"P", "r", "o", "b", "_", "y", "_", "e", "s", "t">>, <<"E", "x", "a", "m", "e", "n", "e", "s">>, <<"2", "0", "2", "3", "_", "Q", "1", "_", "2", "P", "_", "A", ".", "p", "d", "f">>>>
    /\ ExtractUnitFromFilename(file_path[4]) # None
    /\ academic_metadata[1]["año"] = IntV(2023)
    /\ academic_metadata[1]["tipo_examen"] = StrV(<<"s", "e", "g", "u", "n", "d", "o", "_", "p", "a", "r", "c", "i", "a", "l">>)

\* C19: the metadata of every document classified as an exam has tipo_examen:
\* recuperatorio with a recovery keyword in the name, else final with "final"
\* in it, else primer_parcial or segundo_parcial by the first parcial pattern
\* that matches, primer_parcial when none does; it is never absent.
C19_TipoExamenAlwaysSet ==
    (/\ academic_metadata # None
     /\ academic_metadata[1]["tipo_documento"].s \in ExamKinds) =>
        LET m == academic_metadata[1]
            filename_lower == Lower(file_path[Len(file_path)])
        IN  /\ "tipo_examen" \in DOMAIN m
            /\ m["tipo_examen"] =
                   StrV(IF \E w \in {<<"r", "e", "c", "u", "p">>, <<"r", "e", "c", "u", "p", "e", "r", "a", "t", "o", "r", "i", "o">>, <<"r", "e", "c", "u", "p", "e", "r", "a", "c", "i", "o", "n">>} :
                              Contains(filename_lower, w)
                        THEN <<"r", "e", "c", "u", "p", "e", "r", "a", "t", "o", "r", "i", "o">>
                        ELSE IF Contains(filename_lower, <<"f", "i", "n", "a", "l">>) THEN <<"f", "i", "n", "a", "l">>
                        ELSE IF ParcialNum(filename_lower) = 2 THEN <<"s", "e", "g", "u", "n", "d", "o", "_", "p", "a", "r", "c", "i", "a", "l">>
                        ELSE <<"p", "r", "i", "m", "e", "r", "_", "p", "a", "r", "c", "i", "a", "l">>)

\* the first integer that occurs in s (s holds a digit)
FirstInteger(s) ==
    ParseInt(DigitsAt(s, Least({p \in 1..Len(s) : s[p] \in DigitSet})))

\* C20: when the second level of the path is a unit folder and the document is
\* no exam, unidad_numero is the first integer of that folder's name.
C20_UnitNumberOfUnitFolder ==
    (/\ academic_metadata # None
     /\ Len(PathAfterDocs(file_path)) >= 3
     /\ IsUnitFolder(PathAfterDocs(file_path)[2])
     /\ academic_metadata[1]["tipo_documento"].s \notin ExamKinds) =>
        /\ "unidad_numero" \in DOMAIN academic_metadata[1]
        /\ academic_metadata[1]["unidad_numero"] =
               IntV(FirstInteger(PathAfterDocs(file_path)[2]))

\* the values _detect_tipo_documento_fallback can return
FallbackTipos ==
    {<<"a", "p", "u", "n", "t", "e", "s">>, <<"g", "u", "i", "a", "s">>, <<"e", "x", "a", "m", "e", "n", "e", "s">>, <<"p", "a", "r", "c", "i", "a", "l", "e", "s">>, <<"f", "i", "n", "a", "l", "e", "s">>, <<"e", "j", "e", "r", "c", "i", "c", "i", "o", "s">>, <<"d", "o", "c", "u", "m", "e", "n", "t", "o">>}

\* C21: for a file directly inside a unit folder (<materia>/<unit folder>/<file>
\* after the anchor), tipo_documento is one of the values of the file-name
\* keyword detection and is not the file's own name.
C21_TipoFromFilenameKeywords ==
    (/\ academic_metadata # None
     /\ Len(PathAfterDocs(file_path)) = 3
     /\ IsUnitFolder(PathAfterDocs(file_path)[2])) =>
        /\ academic_metadata[1]["tipo_documento"].s \in FallbackTipos
        /\ academic_metadata[1]["tipo_documento"].s # file_path[Len(file_path)]
        /\ academic_metadata[1]["tipo_documento"].s =
               DetectTipoDocumentoFallback(file_path[Len(file_path)])

---------------------------------------------------------------------------
(* Claims about the chunk fields of split_documents                        *)

\* the number of places of content where keyword occurs
Occurrences(content, keyword) ==
    Cardinality({p \in 1..Len(content) :
                    /\ p + Len(keyword) - 1 <= Len(content)
                    /\ SubSeq(content, p, p + Len(keyword) - 1) = keyword})

RECURSIVE SumOccurrences(_, _)
SumOccurrences(content, keywords) ==
    IF keywords = {} THEN 0
    ELSE LET kw == CHOOSE k \in keywords : TRUE
         IN  Occurrences(content, kw) + SumOccurrences(content, keywords \ {kw})

\* the difficulty the occurrence counts of the two keyword lists give
DifficultyByOccurrences(content) ==
    LET b == SumOccurrences(content, BeginnerKeywords)
        a == SumOccurrences(content, AdvancedKeywords)
    IN  IF a > b THEN <<"a", "v", "a", "n", "z", "a", "d", "o">>
        ELSE IF b > 0 THEN <<"i", "n", "t", "r", "o", "d", "u", "c", "t", "o", "r", "i", "o">>
        ELSE <<"i", "n", "t", "e", "r", "m", "e", "d", "i", "o">>

\* C24: the difficulty_hint of every chunk is avanzado when the advanced
\* keywords occur more often in its content than the beginner keywords,
\* otherwise introductorio when a beginner keyword occurs, otherwise
\* intermedio; it is one of these three values.
C24_DifficultyFromOccurrences ==
    add_chunk_metadata =>
        \A x \in 1..Len(chunks) :
            /\ "difficulty_hint" \in DOMAIN chunks[x].metadata
            /\ chunks[x].metadata["difficulty_hint"].s \in
                  {<<"a", "v", "a", "n", "z", "a", "d", "o">>, <<"i", "n", "t", "r", "o", "d", "u", "c", "t", "o", "r", "i", "o">>, <<"i", "n", "t", "e", "r", "m", "e", "d", "i", "o">>}
            /\ chunks[x].metadata["difficulty_hint"].s =
                  DifficultyByOccurrences(Lower(chunks[x].page_content))

\* C25: with chunk metadata switched on, every chunk carries chunk_index (its
\* 0-based position among the chunks of its parent), chunk_length (the
\* length of its content), start_index, difficulty_hint and the three fields
\* contains_math, contains_definitions and contains_exercises, each a boolean.
C25_AllChunkFieldsPresent ==
    add_chunk_metadata =>
        \A x \in 1..Len(chunks) :
            LET m == chunks[x].metadata
            IN  /\ {"chunk_index", "chunk_length", "start_index", "difficulty_hint"}
                      \subseteq DOMAIN m
                /\ m["chunk_index"] =
                      IntV(Cardinality({y \in 1..(x - 1) : chunks[y].parent = chunks[x].parent}))
                /\ m["chunk_length"] = IntV(Len(chunks[x].page_content))
                /\ \A k \in {"contains_math", "contains_definitions", "contains_exercises"} :
                      k \in DOMAIN m /\ m[k] \in {BoolV(TRUE), BoolV(FALSE)}

---------------------------------------------------------------------------
(* Claims about the score threshold of Retriever.retrieve                  *)

\* C30: every document retrieve returns has a score of at least the
\* retriever's current score_threshold, on each of its three routes.
C30_ThresholdOnEveryRoute ==
    (op.name = "retrieve" /\ ~raised) =>
        \A x \in 1..Len(result) : ScoreOf(result[x]) >= self_score_threshold

=============================================================================
